---- MODULE Spec2Model ----
(***************************************************************************)
(* Pink Reader PWA: the media library (MediaManager, src/js/app.js), its   *)
(* IndexedDB stores, the debounced auto-save (Utils.debounce) and the      *)
(* application shell's use of them.                                        *)
(*                                                                         *)
(* JavaScript objects are modelled by reference: every MediaFile object    *)
(* lives in `heap` under its id, and this.files, this.currentFile, the     *)
(* shell's thumbnails and tabs hold ids.  null is the id 0.                *)
(* Time is in milliseconds; timers are kept as the time left until they    *)
(* fire, and time never passes a timer that is due.                        *)
(* An IndexedDB transaction takes effect in the order of its creation, so  *)
(* the effect of a request is applied where the code creates the           *)
(* transaction and its callback is a later step.                           *)
(***************************************************************************)
EXTENDS Integers, Sequences, FiniteSets, TLC

\* ------------------------------------------------------------- bounds
\* files imported in one run (ids generated by addFile)
MaxIds == 2
\* largest page number a viewer reports
MaxPage == 2
\* update calls counted in one burst
MaxBurst == 2
\* addFile calls in flight at one time
MaxInFlight == 1
\* callbacks subscribed to one event
MaxListeners == 3
\* load calls of one viewer in flight at one time
MaxLoads == 2
\* object URLs created in one run
MaxUrls == 2
\* gestures of the user on one image viewer
MaxGestures == 3
\* touch events on one image viewer
MaxTouchEvents == 4
\* touches down at one time
MaxTouches == 2
\* toggles of the settings awaiting their writes at one time
MaxToggles == 2
\* fitImageToContainer leaves this margin, in pixels, and never fits beyond this scale
FitMargin == 40
MaxFitScale == 3
\* restoreSavedPosition resumes beyond this many seconds
ResumeThreshold == 5
\* rewind and forward move by this many seconds, ArrowUp and ArrowDown by thrice it
SeekStep == 10
LongSeekStep == 30
\* saveCurrentPosition saves a position further than this from the last saved one
SaveThreshold == 1

\* ---------------------------------------------------------- constants
\* Utils.debounce(..., 1000): the auto-save window, in ms
DebounceWait == 1000
\* null (for currentFile, pageCount, videoDuration)
Null == 0

\* amounts by which time advances between two events, in ms
Steps == {500}
\* elapsed times are recorded up to this value
AgeCap == DebounceWait + 500

Ids == 1..MaxIds
\* the id of a file persisted by an earlier session
PriorId == MaxIds + 1
AllIds == 1..PriorId

Events == {"filesChanged", "currentFileChanged", "settingsChanged"}

\* ------------------------------------------------------------ helpers
Min(a, b) == IF a < b THEN a ELSE b

Range(s) == {s[i] : i \in 1..Len(s)}

Contains(s, x) == \E i \in 1..Len(s) : s[i] = x

\* Array.prototype.filter(f => f.id !== id)
FilterOut(s, id) == SelectSeq(s, LAMBDA x : x # id)

\* the empty object store
EmptyStore == [i \in {} |-> Null]

\* store.put / store.add of one record
Put(store, id, rec) == [i \in DOMAIN store \cup {id} |-> IF i = id THEN rec ELSE store[i]]

\* store.delete of one key
Delete(store, id) == [i \in DOMAIN store \ {id} |-> store[i]]

\* ---------------------------------------------- Utils.getMediaType
\* String.prototype.toLowerCase on the extensions used here
ToLower(s) == CASE s = "PDF" -> "pdf" [] s = "MP4" -> "mp4" [] s = "PNG" -> "png" [] OTHER -> s

imageExtensions == {"jpg", "jpeg", "png", "gif", "webp", "bmp", "svg"}

videoExtensions == {"mp4", "webm", "ogg", "mov", "avi", "mkv"}

pdfExtensions == {"pdf"}

\* a getMediaType that compares the extension as it is written
getMediaTypeCaseSensitive(fileName) ==
    LET extension == fileName[Len(fileName)]
    IN  IF extension \in pdfExtensions THEN "pdf"
        ELSE IF extension \in imageExtensions THEN "image"
        ELSE IF extension \in videoExtensions THEN "video"
        ELSE "pdf"

\* a file name is the sequence of its dot-separated parts; pop() takes the last
getMediaType(fileName) ==
    LET extension == ToLower(fileName[Len(fileName)])
    IN  IF extension \in pdfExtensions THEN "pdf"
        ELSE IF extension \in imageExtensions THEN "image"
        ELSE IF extension \in videoExtensions THEN "video"
        ELSE "pdf"

\* ------------------------------------------------------------- inputs
\* the File objects handed to addFile: name, declared type, bytes
RawFiles ==
    { [name |-> <<"a", "pdf">>, type |-> "application/pdf", data |-> <<37, 80, 68, 70>>],
      [name |-> <<"c", "MP4">>, type |-> "video/mp4", data |-> <<0, 0, 1>>] }

\* the positions the video player reports, in seconds
Times == {7, 42}

\* the MediaFile record addFile builds
NewMediaFile(fileId, file, pageCount) ==
    [ id |-> fileId,
      fileName |-> file.name,
      displayName |-> file.name,
      mediaType |-> getMediaType(file.name),
      fileSize |-> Len(file.data),
      pageCount |-> IF getMediaType(file.name) = "pdf" THEN pageCount ELSE Null,
      lastViewedPage |-> 1,
      lastViewedTime |-> 0,
      videoDuration |-> Null ]

\* the fileData record storeFileData writes
ContentRecord(fileId, file) ==
    [id |-> fileId, data |-> file.data, type |-> file.type, name |-> file.name]

\* the Blob getFileData resolves with
BlobOf(rec) == [data |-> rec.data, type |-> rec.type]

\* a file persisted by an earlier session, with its content
PriorFile ==
    [ id |-> PriorId, fileName |-> <<"old", "mp4">>, displayName |-> <<"old", "mp4">>,
      mediaType |-> "video", fileSize |-> 2, pageCount |-> Null,
      lastViewedPage |-> 1, lastViewedTime |-> 7, videoDuration |-> 42 ]

PriorContent == [id |-> PriorId, data |-> <<9, 9>>, type |-> "video/mp4", name |-> <<"old", "mp4">>]

\* ---------------------------------------------------------------- state
VARIABLES
    db,              \* MediaManager.db: "null", "open", "closed" (after db.close())
    initPc,          \* where MediaManager.init() stands
    heap,            \* the MediaFile objects, by id
    files,           \* MediaManager.files: ids, in list order
    currentFile,     \* MediaManager.currentFile: an id, or Null
    eventListeners,  \* MediaManager.eventListeners: event -> handlers, in order
    isTwoPageMode,   \* MediaManager.isTwoPageMode
    sidebarVisible,  \* MediaManager.sidebarVisible
    timeout,         \* Utils.debounce's timer: {} or {ms left}
    dbFiles,         \* object store 'files': id -> record
    dbFileData,      \* object store 'fileData': id -> content record
    dbSettings,      \* object store 'settings': key -> value
    settingWrites,   \* the puts of saveSetting in flight, in the order issued
    settingsNotified,\* {} or {the data of the last settingsChanged emitted}
    componentsPc,    \* PinkReaderApp.setupComponents: "waiting", "done"
    adds,            \* addFile calls in flight
    nextId,          \* the next id generateUUID yields
    removeAllPc,     \* removeAllFiles in flight: "idle", "clearing"
    savePc,          \* saveFiles in flight: "idle", "clearing", "adding"
    saveArr,         \* the array saveFiles iterates
    saveIdx,         \* how many of its entries were handed to store.add
    saveLive,        \* that array is still this.files (a push is seen)
    saveBuf,         \* the records of the transaction so far
    saveVoid,        \* removeAllFiles queued its clear behind this transaction
    fileGrid,        \* the shell's thumbnails: the file objects they select
    tabs,            \* the shell's tabs: the file objects they select
    lastOp,          \* the last call: its name, argument, outcome and emits
    dirtyAge,        \* {} or {ms since the oldest update no issued write holds}
    burst,           \* the current burst of update calls
    sinceCall,       \* {} or {ms since the last call of the debounced save}
    pdfViewer,       \* PDFViewer: its fields and what its canvas shows
    pdfLoads,        \* loadPDF calls in flight
    pdfRender,       \* the renderPage call in flight, if any
    imageViewer,     \* ImageViewer: its currentFile and the src of its element
    imageLoads,      \* loadImage calls in flight
    imageZoom,       \* ImageViewer: scale, pan, sizes and the pointer and touch state
    videoPlayer,     \* VideoPlayer: its fields
    videoElement,    \* the <video> element: src, currentTime, duration, paused
    videoLoads,      \* loadVideo calls in flight
    objectURLs,      \* the object URLs created and not revoked
    nextUrl          \* the number of the next object URL

vars ==
    << db, initPc, heap, files, currentFile, eventListeners, isTwoPageMode,
       sidebarVisible, timeout, dbFiles, dbFileData, dbSettings, settingWrites,
       settingsNotified, componentsPc, adds, nextId, removeAllPc, savePc, saveArr, saveIdx, saveLive, saveBuf, saveVoid,
       fileGrid, tabs, lastOp, dirtyAge, burst, sinceCall,
       pdfViewer, pdfLoads, pdfRender, imageViewer, imageLoads, imageZoom, videoPlayer,
       videoElement, videoLoads, objectURLs, nextUrl >>

saveVars == << savePc, saveArr, saveIdx, saveLive, saveBuf, saveVoid >>

\* the settings, with the shell's wait for the manager, which no call of the
\* library's interface touches
settingVars ==
    << isTwoPageMode, sidebarVisible, dbSettings, settingWrites, settingsNotified,
       componentsPc >>

shellVars == << fileGrid, tabs >>

pdfVars == << pdfViewer, pdfLoads, pdfRender >>

imageVars == << imageViewer, imageLoads, imageZoom >>

videoVars == << videoPlayer, videoElement, videoLoads >>

urlVars == << objectURLs, nextUrl >>

\* what the document viewer, and the image viewer, leave alone
notPdfVars == << imageVars, videoVars, urlVars >>

notImageVars == << pdfVars, videoVars >>

notVideoVars == << pdfVars, imageVars >>

\* the viewers' state, which the actions of the library leave alone
viewerVars == << pdfVars, imageVars, videoVars, urlVars >>

\* ------------------------------------------------------- emit, on, off
\* a forEach without the try/catch: the first callback that throws ends it and the
\* exception leaves emit
RECURSIVE CallFromUnguarded(_, _, _)
CallFromUnguarded(hs, i, throwing) ==
    IF i > Len(hs) THEN [called |-> << >>, raised |-> FALSE]
    ELSE IF hs[i] \in throwing THEN [called |-> << hs[i] >>, raised |-> TRUE]
    ELSE LET rest == CallFromUnguarded(hs, i + 1, throwing)
         IN  [called |-> << hs[i] >> \o rest.called, raised |-> rest.raised]

\* the forEach of emit from position i on: each callback is called inside a
\* try/catch, so what one throws is logged and the loop goes on
RECURSIVE CallFrom(_, _, _)
CallFrom(hs, i, throwing) ==
    IF i > Len(hs) THEN [called |-> << >>, raised |-> FALSE]
    ELSE LET rest == CallFrom(hs, i + 1, throwing)
         IN  [called |-> << hs[i] >> \o rest.called, raised |-> rest.raised]

\* MediaManager.emit: the callbacks called, in order, and whether emit throws
emit(listeners, event, throwing) ==
    IF event \in DOMAIN listeners THEN CallFrom(listeners[event], 1, throwing)
    ELSE [called |-> << >>, raised |-> FALSE]

\* MediaManager.on
on(listeners, event, callback) ==
    [e \in DOMAIN listeners \cup {event} |->
        IF e = event
        THEN (IF e \in DOMAIN listeners THEN listeners[e] ELSE << >>) \o << callback >>
        ELSE listeners[e]]

\* Array.prototype.indexOf: the first position of x in s, 0 when there is none
IndexOf(s, x) ==
    IF Contains(s, x) THEN CHOOSE i \in 1..Len(s) : s[i] = x /\ \A j \in 1..(i - 1) : s[j] # x
    ELSE 0

\* MediaManager.off: splice(index, 1) of the first occurrence
off(listeners, event, callback) ==
    IF event \in DOMAIN listeners /\ IndexOf(listeners[event], callback) > 0
    THEN LET hs == listeners[event]
             k == IndexOf(hs, callback)
         IN  [listeners EXCEPT ![event] = SubSeq(hs, 1, k - 1) \o SubSeq(hs, k + 1, Len(hs))]
    ELSE listeners

\* one emit as the log keeps it
Emitted(event, data) ==
    [event |-> event, data |-> data, called |-> emit(eventListeners, event, {}).called]

Subscribed(event, h) == Contains(emit(eventListeners, event, {}).called, h)

\* the record of a call
\* (before: this.currentFile when it was made; raised: it threw, or ran its catch)
Op(name, arg, raised, emits) ==
    [op |-> name, arg |-> arg, raised |-> raised, emits |-> emits, before |-> currentFile,
     result |-> Null]

\* a step that is no call of the manager's interface and emits nothing
Quiet == [op |-> "", arg |-> Null, raised |-> FALSE, emits |-> << >>, before |-> Null,
          result |-> Null]

\* the MediaFile objects something still refers to
Restrict(h, live) == [i \in DOMAIN h \cap live |-> h[i]]

Live(fs, cur, grid, tb, arr) == Range(fs) \cup {cur} \cup Range(grid) \cup Range(tb) \cup Range(arr)

\* the ids of a store in key order, as getAll returns its records
RECURSIVE KeyOrder(_)
KeyOrder(S) ==
    IF S = {} THEN << >>
    ELSE LET m == CHOOSE x \in S : \A y \in S : x <= y
         IN  << m >> \o KeyOrder(S \ {m})

\* no update call was made yet
NoBurst == [n |-> 0, since |-> 0, writes |-> 0]

\* ------------------------------------------------------------------ Init
\* the subscriptions made by the viewers' constructors and then by the shell
ShellListeners ==
    [e \in Events |->
        CASE e = "filesChanged" -> << "app" >>
          [] e = "currentFileChanged" -> << "pdfViewer", "imageViewer", "videoPlayer", "app" >>
          [] OTHER -> << "pdfViewer", "app" >>]

\* an empty canvas; no renderPage call in flight
NoCanvas == [doc |-> Null, page |-> 0]

NoRender == [doc |-> Null, page |-> 0, pc |-> "idle", cancelled |-> FALSE]

\* ------------------------------------------------------------ exact fractions
\* scales and offsets are fractions n/d in lowest terms, d > 0
RECURSIVE GCD(_, _)
GCD(a, b) == IF b = 0 THEN a ELSE GCD(b, a % b)

Frac(n, d) ==
    LET g == GCD(IF n < 0 THEN 0 - n ELSE n, d)
    IN  IF n = 0 THEN [n |-> 0, d |-> 1] ELSE [n |-> n \div g, d |-> d \div g]

Whole(k) == [n |-> k, d |-> 1]

\* the arithmetic divides by the common factors before it multiplies
FAdd(a, b) ==
    LET g == GCD(a.d, b.d)
    IN  Frac(a.n * (b.d \div g) + b.n * (a.d \div g), (a.d \div g) * b.d)

FSub(a, b) == FAdd(a, [n |-> 0 - b.n, d |-> b.d])

FMul(a, b) ==
    LET p == Frac(a.n, b.d)
        q == Frac(b.n, a.d)
    IN  Frac(p.n * q.n, p.d * q.d)

\* a / b for b > 0
FDiv(a, b) == FMul(a, [n |-> b.d, d |-> b.n])

FLess(a, b) ==
    LET g == GCD(a.d, b.d)
    IN  a.n * (b.d \div g) < b.n * (a.d \div g)

FMin(a, b) == IF FLess(b, a) THEN b ELSE a

FMax(a, b) == IF FLess(a, b) THEN b ELSE a

Point(x, y) == [x |-> Whole(x), y |-> Whole(y)]

\* this.minScale and this.maxScale
minScale == Frac(1, 10)

maxScale == Whole(5)

\* ImageViewer's zoom and interaction state as its constructor leaves it.  fitTimer
\* tells whether the timer of onImageLoad is pending, loadEvent whether the load
\* event of the element is; focus is the focal point of the last change of scale,
\* gestures counts the user's gestures
ZoomConstructed ==
    [scale |-> Whole(1), panOffset |-> Point(0, 0),
     imageNaturalSize |-> [width |-> 0, height |-> 0],
     containerSize |-> [width |-> 0, height |-> 0],
     isDragging |-> FALSE, lastPointerPos |-> Point(0, 0),
     initialPinchDistance |-> 0, initialScale |-> Whole(1),
     touches |-> << >>, loadEvent |-> FALSE, fitTimer |-> FALSE,
     focus |-> {}, gestures |-> 0]

\* the empty src of an element, which is no object URL
NoURL == [n |-> 0, by |-> "", file |-> Null]

\* the <video> element without a source: HAVE_NOTHING, duration NaN
NoMedia == [src |-> NoURL, currentTime |-> 0, duration |-> Null, paused |-> TRUE]

\* VideoPlayer as its constructor leaves it
VideoPlayerReset ==
    [currentFile |-> Null, currentTime |-> 0, duration |-> 0, isPlaying |-> FALSE,
     isSeeking |-> FALSE, savePositionInterval |-> FALSE, lastSavedPosition |-> 0,
     loading |-> FALSE, timers |-> 0]

\* the viewers as their constructors leave them
ViewersConstructed ==
    /\ pdfViewer = [currentFile |-> Null, pdfDocument |-> Null, currentPage |-> 1,
                    totalPages |-> 1, renderTask |-> FALSE, canvas |-> NoCanvas]
    /\ pdfLoads = {}
    /\ pdfRender = NoRender
    /\ imageViewer = [currentFile |-> Null, src |-> NoURL, loading |-> FALSE]
    /\ imageLoads = {}
    /\ imageZoom = ZoomConstructed
    /\ videoPlayer = VideoPlayerReset
    /\ videoElement = NoMedia
    /\ videoLoads = {}
    /\ objectURLs = {}
    /\ nextUrl = 1

\* the manager as its constructor leaves it, with the given subscriptions
Constructed(listeners) ==
    /\ ViewersConstructed
    /\ db = "null"
    /\ initPc = "initDB"
    /\ heap = EmptyStore
    /\ files = << >>
    /\ currentFile = Null
    /\ eventListeners = listeners
    /\ isTwoPageMode = FALSE
    /\ sidebarVisible = TRUE
    /\ timeout = {}
    /\ \/ dbFiles = EmptyStore /\ dbFileData = EmptyStore
       \/ dbFiles = Put(EmptyStore, PriorId, PriorFile)
          /\ dbFileData = Put(EmptyStore, PriorId, PriorContent)
    /\ dbSettings = EmptyStore
    /\ settingWrites = << >>
    /\ settingsNotified = {}
    /\ componentsPc = "waiting"
    /\ adds = {}
    /\ nextId = 1
    /\ removeAllPc = "idle"
    /\ savePc = "idle"
    /\ saveArr = << >>
    /\ saveIdx = 0
    /\ saveLive = FALSE
    /\ saveBuf = EmptyStore
    /\ saveVoid = FALSE
    /\ fileGrid = << >>
    /\ tabs = << >>
    /\ lastOp = Op("construct", Null, FALSE, << >>)
    /\ dirtyAge = {}
    /\ burst = NoBurst
    /\ sinceCall = {}

\* the state once PinkReaderApp.init() has run its synchronous part: the manager
\* and the viewers are constructed, the shell has subscribed, indexedDB.open is
\* pending; the stores hold what an earlier session left
Init == Constructed(ShellListeners)

\* ------------------------------------------------- MediaManager.init
\* setupAutoSave has run: this.debouncedSave exists
AutoSaveReady == initPc = "done"

\* initDB: request.onsuccess; init goes on to loadFiles, which issues getAll
InitDBSuccess ==
    /\ initPc = "initDB"
    /\ db' = "open"
    /\ initPc' = "loadFiles"
    /\ lastOp' = Quiet
    /\ UNCHANGED << heap, files, currentFile, eventListeners, timeout, dbFiles,
                    dbFileData, adds, nextId, removeAllPc, dirtyAge, burst, sinceCall >>
    /\ UNCHANGED << saveVars, settingVars, shellVars >>

\* initDB: request.onerror; init's catch logs it, nothing else of init runs
InitDBError ==
    /\ initPc = "initDB"
    /\ initPc' = "failed"
    /\ lastOp' = Op("initDB", Null, TRUE, << >>)
    /\ UNCHANGED << db, heap, files, currentFile, eventListeners, timeout, dbFiles,
                    dbFileData, adds, nextId, removeAllPc, dirtyAge, burst, sinceCall >>
    /\ UNCHANGED << saveVars, settingVars, shellVars >>

\* loadFiles: getAll's onsuccess replaces this.files by the stored records, in key
\* order, and emits filesChanged; init goes on to loadSettings
LoadFilesSuccess ==
    /\ initPc = "loadFiles"
    /\ LET loaded == KeyOrder(DOMAIN dbFiles)
           h2 == [i \in DOMAIN heap \cup DOMAIN dbFiles |->
                     IF i \in DOMAIN dbFiles THEN dbFiles[i] ELSE heap[i]]
       IN  /\ files' = loaded
           /\ lastOp' = Op("loadFiles", Null, FALSE, << Emitted("filesChanged", loaded) >>)
           /\ fileGrid' = IF Subscribed("filesChanged", "app") THEN loaded ELSE fileGrid
           /\ tabs' = IF Subscribed("filesChanged", "app") THEN loaded ELSE tabs
           /\ heap' = Restrict(h2, Live(files', currentFile, fileGrid', tabs', saveArr))
    /\ initPc' = "loadSettings"
    /\ saveLive' = FALSE
    /\ UNCHANGED << db, currentFile, eventListeners, timeout, dbFiles, dbFileData,
                    adds, nextId, removeAllPc, dirtyAge, burst, sinceCall >>
    /\ UNCHANGED << savePc, saveArr, saveIdx, saveBuf, saveVoid, settingVars >>

\* loadFiles: getAll's onerror rejects the promise loadFiles returned; the rejection
\* passes loadFiles' own try/catch and ends init in its catch
LoadFilesError ==
    /\ initPc = "loadFiles"
    /\ initPc' = "failed"
    /\ lastOp' = Op("loadFiles", Null, TRUE, << >>)
    /\ UNCHANGED << db, heap, files, currentFile, eventListeners, timeout, dbFiles,
                    dbFileData, adds, nextId, removeAllPc, dirtyAge, burst, sinceCall >>
    /\ UNCHANGED << saveVars, settingVars, shellVars >>

\* a stored setting, or its default
SettingOr(key, default) == IF key \in DOMAIN dbSettings THEN dbSettings[key] ELSE default

\* loadSettings, then setupAutoSave.  With the settings read, loadSettings sets the
\* two fields and emits settingsChanged; when a read fails its catch logs it.  Either
\* way init goes on: setupAutoSave creates debouncedSave and subscribes it
LoadSettingsDone(ok) ==
    /\ initPc = "loadSettings"
    /\ IF ok /\ db = "open"
       THEN /\ isTwoPageMode' = SettingOr("isTwoPageMode", FALSE)
            /\ sidebarVisible' = SettingOr("sidebarVisible", TRUE)
            /\ lastOp' = Op("loadSettings", Null, FALSE,
                    << Emitted("settingsChanged",
                          [isTwoPageMode |-> isTwoPageMode', sidebarVisible |-> sidebarVisible']) >>)
            /\ settingsNotified' =
                    {[isTwoPageMode |-> isTwoPageMode', sidebarVisible |-> sidebarVisible']}
       ELSE /\ UNCHANGED << isTwoPageMode, sidebarVisible, settingsNotified >>
            /\ lastOp' = Op("loadSettings", Null, TRUE, << >>)
    /\ eventListeners' = on(eventListeners, "filesChanged", "debouncedSave")
    /\ initPc' = "done"
    /\ UNCHANGED << db, heap, files, currentFile, timeout, dbFiles, dbFileData,
                    dbSettings, settingWrites, componentsPc, adds, nextId, removeAllPc,
                    dirtyAge, burst, sinceCall >>
    /\ UNCHANGED << saveVars, shellVars >>

\* ------------------------------------ PinkReaderApp.setupComponents: the wait
\* checkInit, run at once and then every 100 ms, finds this.mediaManager.db set and
\* resolves the promise setupComponents awaits; while db is null it sets its timer
\* again and nothing changes
CheckInit ==
    /\ componentsPc = "waiting"
    /\ db # "null"
    /\ componentsPc' = "done"
    /\ lastOp' = Quiet
    /\ UNCHANGED << db, initPc, heap, files, currentFile, eventListeners, timeout, dbFiles,
                    dbFileData, adds, nextId, removeAllPc, dirtyAge, burst, sinceCall >>
    /\ UNCHANGED << saveVars, shellVars, isTwoPageMode, sidebarVisible, dbSettings,
                    settingWrites, settingsNotified >>

\* ------------------------- MediaManager.toggleSidebar, toggleTwoPageMode
\* the setting a toggle flips
Setting(key) == IF key = "sidebarVisible" THEN sidebarVisible ELSE isTwoPageMode

SettingKeys == {"sidebarVisible", "isTwoPageMode"}

\* the toggle of a setting
ToggleOf(key) == IF key = "sidebarVisible" THEN "toggleSidebar" ELSE "toggleTwoPageMode"

\* toggleSidebar() or toggleTwoPageMode() up to its await: the field is flipped and
\* saveSetting issues the put of the new value; without an open database
\* this.db.transaction throws in the promise's executor, the promise toggle awaits
\* is rejected and the toggle ends there
ToggleStart(key) ==
    /\ Len(settingWrites) < MaxToggles
    /\ sidebarVisible' = IF key = "sidebarVisible" THEN ~sidebarVisible ELSE sidebarVisible
    /\ isTwoPageMode' = IF key = "isTwoPageMode" THEN ~isTwoPageMode ELSE isTwoPageMode
    /\ IF db = "open"
       THEN /\ settingWrites' = Append(settingWrites, [key |-> key, value |-> ~Setting(key)])
            /\ lastOp' = Quiet
       ELSE /\ UNCHANGED settingWrites
            /\ lastOp' = Op(ToggleOf(key), Null, TRUE, << >>)
    /\ UNCHANGED << db, initPc, heap, files, currentFile, eventListeners, timeout, dbFiles,
                    dbFileData, adds, nextId, removeAllPc, dirtyAge, burst, sinceCall >>
    /\ UNCHANGED << saveVars, shellVars, dbSettings, settingsNotified, componentsPc >>

\* the oldest put in flight ends: on its success the record is stored and the
\* toggle that awaits it emits settingsChanged with the fields as they now are; on
\* its error the toggle is rejected and emits nothing
ToggleEnd(ok) ==
    /\ settingWrites # << >>
    /\ LET w == Head(settingWrites)
           data == [isTwoPageMode |-> isTwoPageMode, sidebarVisible |-> sidebarVisible]
       IN  IF ok
           THEN /\ dbSettings' = Put(dbSettings, w.key, w.value)
                /\ settingsNotified' = {data}
                /\ lastOp' = Op(ToggleOf(w.key), Null, FALSE,
                                << Emitted("settingsChanged", data) >>)
           ELSE /\ UNCHANGED << dbSettings, settingsNotified >>
                /\ lastOp' = Op(ToggleOf(w.key), Null, TRUE, << >>)
    /\ settingWrites' = Tail(settingWrites)
    /\ UNCHANGED << db, initPc, heap, files, currentFile, eventListeners, timeout, dbFiles,
                    dbFileData, adds, nextId, removeAllPc, dirtyAge, burst, sinceCall >>
    /\ UNCHANGED << saveVars, shellVars, isTwoPageMode, sidebarVisible, componentsPc >>

\* a setCurrentFile that notifies only when the pointer changes
setCurrentFileOnChange(cur, file) ==
    IF cur # file
    THEN [currentFile |-> file,
          emits |-> << [event |-> "currentFileChanged", data |-> file,
                        called |-> emit(eventListeners, "currentFileChanged", {}).called] >>]
    ELSE [currentFile |-> cur, emits |-> << >>]

\* --------------------------------------------- MediaManager.setCurrentFile
\* the pointer and the emits of setCurrentFile(file), cur being this.currentFile
setCurrentFile(cur, file) ==
    IF cur # file \/ file # Null
    THEN [currentFile |-> file, emits |-> << Emitted("currentFileChanged", file) >>]
    ELSE [currentFile |-> cur, emits |-> << >>]

\* the shell's currentFileChanged handler (updateCurrentView) redraws the tabs from
\* this.mediaManager.files when the file is not null
TabsAfter(emits, fs, tb) ==
    IF \E i \in 1..Len(emits) :
          /\ emits[i].event = "currentFileChanged"
          /\ emits[i].data # Null
          /\ Contains(emits[i].called, "app")
    THEN fs
    ELSE tb

\* the file objects the shell can hand to the manager: those of its thumbnails and
\* tabs, and the current file
Reachable == (Range(fileGrid) \cup Range(tabs) \cup {currentFile}) \ {Null}

\* selectFile(file) from a thumbnail or a tab, or setCurrentFile(null)
SetCurrentFile(file) ==
    /\ file \in Reachable \cup {Null}
    /\ LET sc == setCurrentFile(currentFile, file)
       IN  /\ currentFile' = sc.currentFile
           /\ lastOp' = Op("setCurrentFile", file, FALSE, sc.emits)
           /\ tabs' = TabsAfter(sc.emits, files, tabs)
           /\ heap' = Restrict(heap, Live(files, currentFile', fileGrid, tabs', saveArr))
    /\ UNCHANGED << db, initPc, files, eventListeners, timeout, dbFiles, dbFileData,
                    adds, nextId, removeAllPc, fileGrid, dirtyAge, burst, sinceCall >>
    /\ UNCHANGED << saveVars, settingVars >>

\* ------------------------------------------------------- Utils.debounce
\* a debounce that keeps a pending timer instead of restarting it
debounceKeepsTimer(timer, wait) == IF timer = {} THEN {wait} ELSE timer

\* a call of the debounced function: clearTimeout, then setTimeout(later, wait)
debounce(timer, wait) == {wait}

\* setupAutoSave subscribed debouncedSave to filesChanged: each emit of it calls the
\* debounced function
TimerAfterFilesChanged ==
    IF Subscribed("filesChanged", "debouncedSave") THEN debounce(timeout, DebounceWait)
    ELSE timeout

\* the time since the debounced save was last called, after a filesChanged
SinceAfterFilesChanged ==
    IF Subscribed("filesChanged", "debouncedSave") THEN {0} ELSE sinceCall

\* --------------------------------------------------- MediaManager.addFile
\* addFile(file) up to its first await: the id is generated, createThumbnail and
\* then storeFileData's fileToArrayBuffer are awaited
AddFileStart(file) ==
    /\ nextId \in Ids
    /\ Cardinality(adds) < MaxInFlight
    /\ adds' = adds \cup {[id |-> nextId, file |-> file, pc |-> "prepare"]}
    /\ nextId' = nextId + 1
    /\ lastOp' = Quiet
    /\ UNCHANGED << db, initPc, heap, files, currentFile, eventListeners, timeout,
                    dbFiles, dbFileData, removeAllPc, dirtyAge, burst, sinceCall >>
    /\ UNCHANGED << saveVars, settingVars, shellVars >>

\* storeFileData: the bytes are read, the transaction is created and put is issued
AddFileStoreData(t) ==
    /\ t \in adds /\ t.pc = "prepare"
    /\ db = "open"
    /\ dbFileData' = Put(dbFileData, t.id, ContentRecord(t.id, t.file))
    /\ adds' = (adds \ {t}) \cup {[t EXCEPT !.pc = "storing"]}
    /\ lastOp' = Quiet
    /\ UNCHANGED << db, initPc, heap, files, currentFile, eventListeners, timeout,
                    dbFiles, nextId, removeAllPc, dirtyAge, burst, sinceCall >>
    /\ UNCHANGED << saveVars, settingVars, shellVars >>

\* an addFile that pushes the entry before storing the content and leaves it there
\* when storing fails
AddFileStoreErrorAfterPush(t) ==
    /\ t \in adds /\ t.pc = "prepare"
    /\ adds' = adds \ {t}
    /\ files' = Append(files, t.id)
    /\ heap' = Put(heap, t.id, NewMediaFile(t.id, t.file, Null))
    /\ lastOp' = Op("addFile", t.id, TRUE, << >>)
    /\ UNCHANGED << db, initPc, currentFile, eventListeners, timeout, dbFiles,
                    dbFileData, nextId, removeAllPc, dirtyAge, burst, sinceCall >>
    /\ UNCHANGED << saveVars, settingVars, shellVars >>

\* storeFileData rejects: the file cannot be read, this.db.transaction throws (no
\* open connection), or the put request fails.  addFile's catch rethrows
AddFileStoreError(t) ==
    /\ t \in adds /\ t.pc = "prepare"
    /\ adds' = adds \ {t}
    /\ lastOp' = Op("addFile", t.id, TRUE, << >>)
    /\ UNCHANGED << db, initPc, heap, files, currentFile, eventListeners, timeout,
                    dbFiles, dbFileData, nextId, removeAllPc, dirtyAge, burst, sinceCall >>
    /\ UNCHANGED << saveVars, settingVars, shellVars >>

\* an addFile that emits filesChanged first and then selects the file
addFileEmitsListFirst(cur, fileId, newFiles) ==
    << [event |-> "filesChanged", data |-> newFiles,
        called |-> emit(eventListeners, "filesChanged", {}).called] >>
    \o setCurrentFile(cur, fileId).emits

\* what addFile emits once the file is in the list: setCurrentFile(mediaFile), then
\* emit('filesChanged', this.files)
addFileEmits(cur, fileId, newFiles) ==
    setCurrentFile(cur, fileId).emits \o << Emitted("filesChanged", newFiles) >>

\* the end of addFile: push, setCurrentFile, emit filesChanged.  The shell's handlers
\* redraw thumbnails and tabs; the debounced save, when subscribed, restarts its timer
AddFileFinish(t, pageCount) ==
    LET mediaFile == NewMediaFile(t.id, t.file, pageCount)
        newFiles == Append(files, t.id)
        emits == addFileEmits(currentFile, t.id, newFiles)
    IN  /\ files' = newFiles
        /\ currentFile' = setCurrentFile(currentFile, t.id).currentFile
        /\ lastOp' = Op("addFile", t.id, FALSE, emits)
        /\ fileGrid' = IF Subscribed("filesChanged", "app") THEN newFiles ELSE fileGrid
        /\ tabs' = IF Subscribed("filesChanged", "app") THEN newFiles
                   ELSE TabsAfter(emits, newFiles, tabs)
        /\ timeout' = TimerAfterFilesChanged
        /\ sinceCall' = SinceAfterFilesChanged
        /\ saveArr' = IF saveLive THEN Append(saveArr, t.id) ELSE saveArr
        /\ heap' = Restrict(Put(heap, t.id, mediaFile),
                            Live(files', currentFile', fileGrid', tabs', saveArr'))
        /\ adds' = adds \ {t}
        /\ UNCHANGED << db, initPc, eventListeners, dbFiles, dbFileData, nextId,
                        removeAllPc, dirtyAge, burst >>
        /\ UNCHANGED << savePc, saveIdx, saveLive, saveBuf, saveVoid, settingVars >>

\* the put's onsuccess.  A pdf goes on to await getPDFPageCount; any other file is
\* finished in the same turn
AddFileStored(t) ==
    /\ t \in adds /\ t.pc = "storing"
    /\ IF getMediaType(t.file.name) = "pdf"
       THEN /\ adds' = (adds \ {t}) \cup {[t EXCEPT !.pc = "counting"]}
            /\ lastOp' = Quiet
            /\ UNCHANGED << db, initPc, heap, files, currentFile, eventListeners, timeout,
                            dbFiles, dbFileData, nextId, removeAllPc, dirtyAge, burst, sinceCall >>
            /\ UNCHANGED << saveVars, settingVars, shellVars >>
       ELSE AddFileFinish(t, Null)

\* getPDFPageCount settles: numPages, or null when pdf.js is missing or fails
AddFileCounted(t, pageCount) ==
    /\ t \in adds /\ t.pc = "counting"
    /\ AddFileFinish(t, pageCount)

\* ------------------------------------------------ MediaManager.removeFile
\* removeFile(file), which runs in one turn (it awaits nothing): filter the list,
\* open the transaction and issue the delete, re-select when the file was current,
\* emit filesChanged.  When this.db.transaction throws, the catch ends the call
\* where it stands.  deleteOk: the delete request succeeds
RemoveFile(f, deleteOk) ==
    /\ f \in Reachable
    /\ LET newFiles == FilterOut(files, f)
           sc == IF currentFile # Null /\ currentFile = f
                 THEN setCurrentFile(currentFile, IF Len(newFiles) > 0 THEN newFiles[1] ELSE Null)
                 ELSE [currentFile |-> currentFile, emits |-> << >>]
           emits == sc.emits \o << Emitted("filesChanged", newFiles) >>
       IN  /\ files' = newFiles
           /\ saveLive' = FALSE
           /\ IF db = "open"
              THEN /\ dbFileData' = IF deleteOk THEN Delete(dbFileData, f) ELSE dbFileData
                   /\ currentFile' = sc.currentFile
                   /\ lastOp' = Op("removeFile", f, FALSE, emits)
                   /\ fileGrid' = IF Subscribed("filesChanged", "app") THEN newFiles ELSE fileGrid
                   /\ tabs' = IF Subscribed("filesChanged", "app") THEN newFiles
                              ELSE TabsAfter(emits, newFiles, tabs)
                   /\ timeout' = TimerAfterFilesChanged
                   /\ sinceCall' = SinceAfterFilesChanged
              ELSE /\ lastOp' = Op("removeFile", f, TRUE, << >>)
                   /\ UNCHANGED << dbFileData, currentFile, fileGrid, tabs, timeout, sinceCall >>
           /\ heap' = Restrict(heap, Live(files', currentFile', fileGrid', tabs', saveArr))
    /\ UNCHANGED << db, initPc, eventListeners, dbFiles, adds, nextId, removeAllPc,
                    dirtyAge, burst >>
    /\ UNCHANGED << savePc, saveArr, saveIdx, saveBuf, saveVoid, settingVars >>

\* -------------------------------------------- MediaManager.removeAllFiles
\* removeAllFiles up to its await: empty the list, setCurrentFile(null), open the
\* transaction over both stores and issue the two clears.  When this.db.transaction
\* throws, the catch ends the call.  clearOk: the clears succeed (else the
\* transaction aborts and the stores keep their records)
RemoveAllFiles(clearOk) ==
    /\ removeAllPc = "idle"
    /\ LET sc == setCurrentFile(currentFile, Null)
       IN  /\ files' = << >>
           /\ saveLive' = FALSE
           /\ currentFile' = sc.currentFile
           /\ IF db = "open"
              THEN /\ lastOp' = Op("removeAllFiles", Null, FALSE, sc.emits)
                   /\ removeAllPc' = IF clearOk THEN "clearing" ELSE "failing"
                   /\ dbFiles' = IF clearOk THEN EmptyStore ELSE dbFiles
                   /\ dbFileData' = IF clearOk THEN EmptyStore ELSE dbFileData
                   /\ saveVoid' = IF clearOk /\ savePc # "idle" THEN TRUE ELSE saveVoid
              ELSE /\ lastOp' = Op("removeAllFiles", Null, TRUE, sc.emits)
                   /\ UNCHANGED << removeAllPc, dbFiles, dbFileData, saveVoid >>
           /\ heap' = Restrict(heap, Live(files', currentFile', fileGrid, tabs, saveArr))
    /\ UNCHANGED << db, initPc, eventListeners, timeout, adds, nextId, dirtyAge, burst, sinceCall >>
    /\ UNCHANGED << savePc, saveArr, saveIdx, saveBuf, settingVars, shellVars >>

\* both clears have succeeded (after every transaction created earlier is over):
\* emit filesChanged with this.files as it is now
RemoveAllFilesDone ==
    /\ removeAllPc = "clearing"
    /\ savePc = "idle"
    /\ removeAllPc' = "idle"
    /\ lastOp' = Op("removeAllFilesDone", Null, FALSE, << Emitted("filesChanged", files) >>)
    /\ fileGrid' = IF Subscribed("filesChanged", "app") THEN files ELSE fileGrid
    /\ tabs' = IF Subscribed("filesChanged", "app") THEN files ELSE tabs
    /\ timeout' = TimerAfterFilesChanged
    /\ sinceCall' = SinceAfterFilesChanged
    /\ heap' = Restrict(heap, Live(files, currentFile, fileGrid', tabs', saveArr))
    /\ UNCHANGED << db, initPc, files, currentFile, eventListeners, dbFiles,
                    dbFileData, adds, nextId, dirtyAge, burst >>
    /\ UNCHANGED << saveVars, settingVars >>

\* a clear has failed: the catch logs it and nothing is emitted
RemoveAllFilesError ==
    /\ removeAllPc = "failing"
    /\ savePc = "idle"
    /\ removeAllPc' = "idle"
    /\ lastOp' = Op("removeAllFilesDone", Null, TRUE, << >>)
    /\ UNCHANGED << db, initPc, heap, files, currentFile, eventListeners, timeout,
                    dbFiles, dbFileData, adds, nextId, dirtyAge, burst, sinceCall >>
    /\ UNCHANGED << saveVars, settingVars, shellVars >>

\* ---------------- updateLastViewedPage / updateLastViewedTime / updateVideoDuration
\* the burst after one more update call: a call less than one window after the
\* previous one goes on with the burst, any other starts one
BurstAfterCall ==
    IF burst.n > 0 /\ burst.since < DebounceWait
    THEN [burst EXCEPT !.n = Min(burst.n + 1, MaxBurst), !.since = 0]
    ELSE [n |-> 1, since |-> 0, writes |-> 0]

\* update...(file, v): find the file by id in this.files; when it is there set the
\* field on the list entry (and on this.currentFile, the same object when it has
\* that id) and call this.debouncedSave(), which is undefined, and throws, until
\* setupAutoSave has run
UpdateField(name, f, field, v) ==
    /\ f \in DOMAIN heap
    /\ IF Contains(files, f)
       THEN /\ heap' = [heap EXCEPT ![f][field] = v]
            /\ burst' = BurstAfterCall
            /\ IF AutoSaveReady
               THEN /\ timeout' = debounce(timeout, DebounceWait)
                    /\ dirtyAge' = IF dirtyAge = {} THEN {0} ELSE dirtyAge
                    /\ sinceCall' = {0}
                    /\ lastOp' = Op(name, f, FALSE, << >>)
               ELSE /\ lastOp' = Op(name, f, TRUE, << >>)
                    /\ UNCHANGED << timeout, dirtyAge, sinceCall >>
       ELSE /\ lastOp' = Op(name, f, FALSE, << >>)
            /\ UNCHANGED << heap, timeout, dirtyAge, burst, sinceCall >>
    /\ UNCHANGED << db, initPc, files, currentFile, eventListeners, dbFiles,
                    dbFileData, adds, nextId, removeAllPc >>
    /\ UNCHANGED << saveVars, settingVars, shellVars >>

UpdateLastViewedPage(f, page) == UpdateField("updateLastViewedPage", f, "lastViewedPage", page)

UpdateLastViewedTime(f, time) == UpdateField("updateLastViewedTime", f, "lastViewedTime", time)

UpdateVideoDuration(f, duration) == UpdateField("updateVideoDuration", f, "videoDuration", duration)

\* ------------------------------------------------ MediaManager.saveFiles
\* the debounce timer fires: later() calls func, which is saveFiles.  saveFiles opens
\* a readwrite transaction on 'files' and issues the clear; when
\* this.db.transaction throws, its catch logs it
DebounceFire ==
    /\ timeout = {0}
    /\ savePc = "idle"
    /\ timeout' = {}
    /\ dirtyAge' = {}
    /\ sinceCall' = {}
    /\ burst' = [burst EXCEPT !.writes = Min(burst.writes + 1, MaxBurst)]
    /\ IF db = "open"
       THEN /\ savePc' = "clearing"
            /\ lastOp' = Op("saveFiles", Null, FALSE, << >>)
       ELSE /\ savePc' = "idle"
            /\ lastOp' = Op("saveFiles", Null, TRUE, << >>)
    /\ UNCHANGED << db, initPc, heap, files, currentFile, eventListeners, dbFiles,
                    dbFileData, adds, nextId, removeAllPc >>
    /\ UNCHANGED << saveArr, saveIdx, saveLive, saveBuf, saveVoid, settingVars, shellVars >>

\* the transaction of saveFiles completes: the store holds the records added, unless
\* removeAllFiles queued its clear behind it
SaveFilesCommit(buf) ==
    /\ dbFiles' = IF saveVoid THEN dbFiles ELSE buf
    /\ savePc' = "idle"
    /\ saveArr' = << >>
    /\ saveIdx' = 0
    /\ saveLive' = FALSE
    /\ saveBuf' = EmptyStore
    /\ saveVoid' = FALSE
    /\ lastOp' = Op("saveFilesDone", Null, FALSE, << >>)
    /\ heap' = Restrict(heap, Live(files, currentFile, fileGrid, tabs, saveArr'))

\* the clear's onsuccess: the loop starts on this.files as it is now and hands its
\* first file to store.add, which copies the record
SaveFilesCleared ==
    /\ savePc = "clearing"
    /\ IF Len(files) = 0
       THEN SaveFilesCommit(EmptyStore)
       ELSE /\ savePc' = "adding"
            /\ saveArr' = files
            /\ saveIdx' = 1
            /\ saveLive' = TRUE
            /\ saveBuf' = Put(EmptyStore, files[1], heap[files[1]])
            /\ lastOp' = Quiet
            /\ UNCHANGED << heap, dbFiles, saveVoid >>
    /\ UNCHANGED << db, initPc, files, currentFile, eventListeners, timeout,
                    dbFileData, adds, nextId, removeAllPc, dirtyAge, burst, sinceCall >>
    /\ UNCHANGED << settingVars, shellVars >>

\* an add's onsuccess: the loop hands the next file of the array to store.add, or
\* ends, and the transaction completes
SaveFilesAdded ==
    /\ savePc = "adding"
    /\ IF saveIdx < Len(saveArr)
       THEN /\ saveIdx' = saveIdx + 1
            /\ saveBuf' = Put(saveBuf, saveArr[saveIdx + 1], heap[saveArr[saveIdx + 1]])
            /\ lastOp' = Quiet
            /\ UNCHANGED << heap, dbFiles, savePc, saveArr, saveLive, saveVoid >>
       ELSE SaveFilesCommit(saveBuf)
    /\ UNCHANGED << db, initPc, files, currentFile, eventListeners, timeout,
                    dbFileData, adds, nextId, removeAllPc, dirtyAge, burst, sinceCall >>
    /\ UNCHANGED << settingVars, shellVars >>

\* a request of saveFiles fails: the transaction aborts, the store keeps what it
\* held, the catch logs it
SaveFilesError ==
    /\ savePc \in {"clearing", "adding"}
    /\ savePc' = "idle"
    /\ saveArr' = << >>
    /\ saveIdx' = 0
    /\ saveLive' = FALSE
    /\ saveBuf' = EmptyStore
    /\ saveVoid' = FALSE
    /\ lastOp' = Op("saveFilesDone", Null, TRUE, << >>)
    /\ heap' = Restrict(heap, Live(files, currentFile, fileGrid, tabs, saveArr'))
    /\ UNCHANGED << db, initPc, files, currentFile, eventListeners, timeout, dbFiles,
                    dbFileData, adds, nextId, removeAllPc, dirtyAge, burst, sinceCall >>
    /\ UNCHANGED << settingVars, shellVars >>

\* ------------------------------------------------------------------ time
Older(age, dt) == {Min(a + dt, AgeCap) : a \in age}

\* dt ms pass, no further than the next timer; the requests of a transaction
\* complete before that much time has passed
Tick(dt) ==
    /\ savePc = "idle"
    /\ removeAllPc = "idle"
    /\ 0 \notin timeout
    /\ LET d == IF timeout = {} THEN dt ELSE Min(dt, CHOOSE x \in timeout : TRUE)
       IN  /\ timeout' = {x - d : x \in timeout}
           /\ dirtyAge' = Older(dirtyAge, d)
           /\ sinceCall' = Older(sinceCall, d)
           /\ burst' = IF burst.n > 0 THEN [burst EXCEPT !.since = Min(burst.since + d, AgeCap)]
                       ELSE burst
    /\ lastOp' = Quiet
    /\ UNCHANGED << db, initPc, heap, files, currentFile, eventListeners, dbFiles,
                    dbFileData, adds, nextId, removeAllPc >>
    /\ UNCHANGED << saveVars, settingVars, shellVars >>

\* ------------------------------------------------ MediaManager.getFileData
\* getFileData(fileId): the Blob of the stored content, or a rejection when there is
\* no record (or no open connection)
getFileData(fileId) ==
    IF db = "open" /\ fileId \in DOMAIN dbFileData
    THEN [raised |-> FALSE, blob |-> BlobOf(dbFileData[fileId])]
    ELSE [raised |-> TRUE, blob |-> Null]

\* ---------------------------------------------------- MediaManager.dispose
\* PinkReaderApp.cleanup (on beforeunload) ends with MediaManager.dispose: the
\* listeners are dropped and the connection is closed.  The debounce timer is
\* left as it is
Dispose ==
    /\ eventListeners' = [e \in {} |-> << >>]
    /\ db' = IF db = "open" THEN "closed" ELSE db
    /\ lastOp' = Quiet
    /\ UNCHANGED << initPc, heap, files, currentFile, timeout, dbFiles, dbFileData,
                    adds, nextId, removeAllPc, dirtyAge, burst, sinceCall >>
    /\ UNCHANGED << saveVars, settingVars, shellVars >>

\* ------------------------------------------ on, off, emit as a client calls them
\* the events and callbacks of a client of the emitter; Failing throws when called
ClientEvents == {"filesChanged", "currentFileChanged"}

Callbacks == {"first", "second", "failing"}

Throwing == {"failing"}

\* the manager right after its constructor: this.eventListeners = {}
InitEmit == Constructed([e \in {} |-> << >>])

ListenerCount(event) == IF event \in DOMAIN eventListeners THEN Len(eventListeners[event]) ELSE 0

On(event, callback) ==
    /\ ListenerCount(event) < MaxListeners
    /\ eventListeners' = on(eventListeners, event, callback)
    /\ lastOp' = Op("on", callback, FALSE, << >>)
    /\ UNCHANGED << db, initPc, heap, files, currentFile, timeout, dbFiles, dbFileData,
                    adds, nextId, removeAllPc, dirtyAge, burst, sinceCall >>
    /\ UNCHANGED << saveVars, settingVars, shellVars >>

Off(event, callback) ==
    /\ eventListeners' = off(eventListeners, event, callback)
    /\ lastOp' = Op("off", callback, FALSE, << >>)
    /\ UNCHANGED << db, initPc, heap, files, currentFile, timeout, dbFiles, dbFileData,
                    adds, nextId, removeAllPc, dirtyAge, burst, sinceCall >>
    /\ UNCHANGED << saveVars, settingVars, shellVars >>

\* emit(event, data): the callbacks run within the call; the record keeps which
\* were called, in order, and whether the call threw
Emit(event, data) ==
    /\ LET e == emit(eventListeners, event, Throwing)
       IN  lastOp' = Op("emit", event, e.raised,
                        << [event |-> event, data |-> data, called |-> e.called] >>)
    /\ UNCHANGED << db, initPc, heap, files, currentFile, eventListeners, timeout, dbFiles,
                    dbFileData, adds, nextId, removeAllPc, dirtyAge, burst, sinceCall >>
    /\ UNCHANGED << saveVars, settingVars, shellVars >>

\* =============================================================== the viewers
\* everything of the manager and the shell but the record of the last call
managerVars ==
    << db, initPc, heap, files, currentFile, eventListeners, timeout, dbFiles,
       dbFileData, adds, nextId, removeAllPc, dirtyAge, burst, sinceCall,
       saveVars, settingVars, shellVars >>

\* a file of the given type as an earlier session left it in the store 'files'
StoredFile(id, mediaType, pageCount) ==
    [ id |-> id, fileName |-> << "f", mediaType >>, displayName |-> << "f", mediaType >>,
      mediaType |-> mediaType, fileSize |-> 1, pageCount |-> pageCount,
      lastViewedPage |-> 1, lastViewedTime |-> 0, videoDuration |-> Null ]

\* its content in the store 'fileData'
StoredContent(id, mediaType) ==
    [id |-> id, data |-> << id >>, type |-> mediaType, name |-> << "f", mediaType >>]

\* the manager once init() has finished on stores that hold the files `lib` (a
\* function from ids to records) and the content of those in `content`, and the
\* shell has drawn them
InitStored(lib, content) ==
    /\ ViewersConstructed
    /\ db = "open"
    /\ initPc = "done"
    /\ heap = lib
    /\ files = KeyOrder(DOMAIN lib)
    /\ currentFile = Null
    /\ eventListeners = on(ShellListeners, "filesChanged", "debouncedSave")
    /\ isTwoPageMode = FALSE
    /\ sidebarVisible = TRUE
    /\ timeout = {}
    /\ dbFiles = lib
    /\ dbFileData = [i \in content |-> StoredContent(i, lib[i].mediaType)]
    /\ dbSettings = EmptyStore
    /\ settingWrites = << >>
    /\ settingsNotified = {[isTwoPageMode |-> FALSE, sidebarVisible |-> TRUE]}
    /\ componentsPc = "done"
    /\ adds = {}
    /\ nextId = 1
    /\ removeAllPc = "idle"
    /\ savePc = "idle"
    /\ saveArr = << >>
    /\ saveIdx = 0
    /\ saveLive = FALSE
    /\ saveBuf = EmptyStore
    /\ saveVoid = FALSE
    /\ fileGrid = KeyOrder(DOMAIN lib)
    /\ tabs = KeyOrder(DOMAIN lib)
    /\ lastOp = Op("init", Null, FALSE, << >>)
    /\ dirtyAge = {}
    /\ burst = NoBurst
    /\ sinceCall = {}

\* the same with the content of every file stored
InitLibrary(lib) == InitStored(lib, DOMAIN lib)

\* ------------------------------------------------------------------ PDFViewer
\* pdfDocument.numPages of the document stored for a file: the first file has the
\* most pages, every other file one page
NumPages(fileId) == IF fileId = 1 THEN MaxPage ELSE 1

\* a library of pdf files, and the video of the earlier session
PdfLibrary ==
    [i \in AllIds |-> IF i \in Ids THEN StoredFile(i, "pdf", NumPages(i)) ELSE PriorFile]

InitPdf == InitLibrary(PdfLibrary)

\* this.isRendering
isRendering == pdfRender # NoRender

\* renderPage() up to its first await, on the viewer v: nothing without a document
\* or while a render is in flight, else the call is in flight for the current page
renderPage(v) ==
    IF v.pdfDocument = Null \/ isRendering
    THEN pdfRender
    ELSE [doc |-> v.pdfDocument, page |-> v.currentPage, pc |-> "getPage",
          cancelled |-> FALSE]

\* Math.max(1, Math.min(pageNumber, this.totalPages))
ClampPage(pageNumber, totalPages) ==
    IF Min(pageNumber, totalPages) > 1 THEN Min(pageNumber, totalPages) ELSE 1

\* clearPDF on the viewer v
clearPDF(v) ==
    [v EXCEPT !.renderTask = FALSE, !.pdfDocument = Null, !.currentFile = Null,
              !.currentPage = 1, !.totalPages = 1, !.canvas = NoCanvas]

\* loadPDF(file) up to its first await (the calls in flight are told apart by their
\* file and their position)
LoadPDFStart(file) ==
    /\ Cardinality(pdfLoads) < MaxLoads
    /\ [file |-> file, pc |-> "getFileData"] \notin pdfLoads
    /\ pdfViewer' = [pdfViewer EXCEPT !.currentFile = file]
    /\ pdfLoads' = pdfLoads \cup {[file |-> file, pc |-> "getFileData"]}
    /\ UNCHANGED pdfRender

\* the viewer's currentFileChanged handler
PdfOnCurrentFileChanged(file) ==
    IF file # Null /\ heap[file].mediaType = "pdf"
    THEN LoadPDFStart(file)
    ELSE IF pdfViewer.currentFile # Null /\ heap[pdfViewer.currentFile].mediaType = "pdf"
         THEN /\ pdfViewer' = clearPDF(pdfViewer)
              /\ pdfRender' = IF pdfViewer.renderTask
                              THEN [pdfRender EXCEPT !.cancelled = TRUE] ELSE pdfRender
              /\ UNCHANGED pdfLoads
         ELSE UNCHANGED pdfVars

\* the user selects a file, or nothing: setCurrentFile, and the viewer's handler
\* runs within its emit
PdfSelect(file) ==
    /\ SetCurrentFile(file)
    /\ PdfOnCurrentFileChanged(file)

\* getFileData settles for a load: the blob, or a rejection that ends loadPDF in its
\* catch
PdfFileData(l, ok) ==
    /\ l \in pdfLoads /\ l.pc = "getFileData"
    /\ pdfLoads' = IF ok /\ ~getFileData(l.file).raised
                   THEN (pdfLoads \ {l}) \cup {[l EXCEPT !.pc = "getDocument"]}
                   ELSE pdfLoads \ {l}
    /\ lastOp' = Quiet
    /\ UNCHANGED << managerVars, pdfViewer, pdfRender >>

\* pdfjsLib.getDocument resolves for a load: the document is installed, the page is
\* taken from the file's lastViewedPage and renderPage is called
PdfDocumentLoaded(l) ==
    /\ l \in pdfLoads /\ l.pc = "getDocument"
    /\ LET lastViewedPage == IF l.file \in DOMAIN heap THEN heap[l.file].lastViewedPage ELSE 1
           v == [pdfViewer EXCEPT !.pdfDocument = l.file,
                                  !.totalPages = NumPages(l.file),
                                  !.currentPage = IF lastViewedPage = 0 THEN 1 ELSE lastViewedPage]
       IN  /\ pdfViewer' = v
           /\ pdfRender' = renderPage(v)
    /\ pdfLoads' = pdfLoads \ {l}
    /\ lastOp' = Quiet
    /\ UNCHANGED managerVars

\* getPage settles: the page, and page.render starts and becomes this.renderTask; or
\* a rejection (no such page), which ends renderPage in its catch
PdfGetPage ==
    /\ pdfRender.pc = "getPage"
    /\ IF pdfRender.page \in 1..NumPages(pdfRender.doc)
       THEN /\ pdfRender' = [pdfRender EXCEPT !.pc = "render"]
            /\ pdfViewer' = [pdfViewer EXCEPT !.renderTask = TRUE, !.canvas = NoCanvas]
       ELSE /\ pdfRender' = NoRender
            /\ UNCHANGED pdfViewer
    /\ lastOp' = Quiet
    /\ UNCHANGED << managerVars, pdfLoads >>

\* the render task completes: the canvas shows the page; renderPage clears
\* this.renderTask and reports this.currentPage for this.currentFile
PdfRendered ==
    /\ pdfRender.pc = "render" /\ ~pdfRender.cancelled
    /\ pdfViewer' = [pdfViewer EXCEPT !.renderTask = FALSE,
                                      !.canvas = [doc |-> pdfRender.doc, page |-> pdfRender.page]]
    /\ pdfRender' = NoRender
    /\ IF pdfViewer.currentFile # Null
       THEN UpdateLastViewedPage(pdfViewer.currentFile, pdfViewer.currentPage)
       ELSE lastOp' = Quiet /\ UNCHANGED managerVars
    /\ UNCHANGED pdfLoads

\* the render task that clearPDF cancelled rejects: renderPage ends in its catch
PdfRenderCancelled ==
    /\ pdfRender.pc = "render" /\ pdfRender.cancelled
    /\ pdfRender' = NoRender
    /\ lastOp' = Quiet
    /\ UNCHANGED << managerVars, pdfViewer, pdfLoads >>

\* goToPage(pageNumber)
GoToPage(pageNumber) ==
    /\ lastOp' = Op("goToPage", pageNumber, FALSE, << >>)
    /\ LET page == ClampPage(pageNumber, pdfViewer.totalPages)
       IN  IF pdfViewer.pdfDocument = Null \/ page = pdfViewer.currentPage
           THEN UNCHANGED << pdfViewer, pdfRender >>
           ELSE LET v == [pdfViewer EXCEPT !.currentPage = page]
                IN  /\ pdfViewer' = v
                    /\ pdfRender' = renderPage(v)
    /\ UNCHANGED << managerVars, pdfLoads >>

\* previousPage()
PreviousPage ==
    IF pdfViewer.currentPage > 1
    THEN GoToPage(pdfViewer.currentPage - 1)
    ELSE lastOp' = Quiet /\ UNCHANGED << managerVars, pdfVars >>

\* nextPage()
NextPage ==
    IF pdfViewer.currentPage < pdfViewer.totalPages
    THEN GoToPage(pdfViewer.currentPage + 1)
    ELSE lastOp' = Quiet /\ UNCHANGED << managerVars, pdfVars >>

\* a setScale that changes the scale and leaves the pan where it was
setScaleKeepingPan(z, newScale, zoomCenter) ==
    LET clampedScale == FMax(minScale, FMin(maxScale, newScale))
    IN  IF clampedScale = z.scale THEN z
        ELSE [z EXCEPT !.scale = clampedScale, !.focus = zoomCenter]

\* ------------------------------------------------- ImageViewer: zoom and pan
\* setScale(newScale, zoomCenter) on the zoom state z; zoomCenter is {} for none, or
\* {c}
setScale(z, newScale, zoomCenter) ==
    LET clampedScale == FMax(minScale, FMin(maxScale, newScale))
        scaleRatio == FDiv(clampedScale, z.scale)
    IN  IF clampedScale = z.scale THEN z
        ELSE [z EXCEPT
                !.panOffset =
                    IF zoomCenter = {} THEN @
                    ELSE LET c == CHOOSE p \in zoomCenter : TRUE
                         IN  [x |-> FSub(c.x, FMul(FSub(c.x, z.panOffset.x), scaleRatio)),
                              y |-> FSub(c.y, FMul(FSub(c.y, z.panOffset.y), scaleRatio))],
                !.scale = clampedScale,
                !.focus = zoomCenter]

\* resetTransform()
resetTransform(z) == [z EXCEPT !.scale = Whole(1), !.panOffset = Point(0, 0), !.focus = {}]

\* fitImageToContainer()
fitImageToContainer(z) ==
    LET W == z.imageNaturalSize.width
        H == z.imageNaturalSize.height
        CW == z.containerSize.width
        CH == z.containerSize.height
        fitScale == IF W * CH > CW * H THEN Frac(CW - FitMargin, W)
                    ELSE Frac(CH - FitMargin, H)
    IN  IF W = 0 \/ H = 0 \/ CW = 0 \/ CH = 0 THEN z
        ELSE setScale(z, FMax(FMin(fitScale, Whole(MaxFitScale)), minScale), {})

\* centerImage()
centerImage(z) ==
    [z EXCEPT !.panOffset =
        [x |-> FDiv(FSub(Whole(z.containerSize.width),
                         FMul(Whole(z.imageNaturalSize.width), z.scale)), Whole(2)),
         y |-> FDiv(FSub(Whole(z.containerSize.height),
                         FMul(Whole(z.imageNaturalSize.height), z.scale)), Whole(2))]]

\* the centre of the container, about which the buttons zoom
ContainerCenter(z) ==
    [x |-> Frac(z.containerSize.width, 2), y |-> Frac(z.containerSize.height, 2)]

\* zoomIn() and zoomOut()
zoomIn(z) == setScale(z, FMul(z.scale, Frac(5, 4)), {ContainerCenter(z)})

zoomOut(z) == setScale(z, FMul(z.scale, Frac(4, 5)), {ContainerCenter(z)})

\* resetZoom()
resetZoom(z) == centerImage(fitImageToContainer(z))

\* handleWheel(e) with the pointer at c: out for deltaY > 0, else in
handleWheel(z, c, deltaY) ==
    setScale(z, FMul(z.scale, IF deltaY > 0 THEN Frac(9, 10) ELSE Frac(11, 10)), {c})

\* handleDoubleClick(e) at c
handleDoubleClick(z, c) ==
    IF FLess(Frac(3, 2), z.scale) THEN fitImageToContainer(z)
    ELSE setScale(z, Whole(2), {c})

\* setZoomInfo(info): info.scale || 1.0 and info.panOffset || {0, 0}
setZoomInfo(z, info) ==
    [z EXCEPT !.scale = IF info.scale.n = 0 THEN Whole(1) ELSE info.scale,
              !.panOffset = info.panOffset, !.focus = {}]

\* ---------------------------------------------------------------- ImageViewer
\* a library of images, and the video of the earlier session
ImageLibrary ==
    [i \in AllIds |-> IF i \in Ids THEN StoredFile(i, "image", Null) ELSE PriorFile]

InitImage == InitLibrary(ImageLibrary)

\* URL.createObjectURL(blob): a new URL, live until it is revoked
createObjectURL(by, file) == [n |-> nextUrl, by |-> by, file |-> file]

\* loadImage(file) up to its await: what it does to the viewer
loadImage(file) ==
    /\ Cardinality(imageLoads) < MaxLoads
    /\ [file |-> file] \notin imageLoads
    /\ imageViewer' = [imageViewer EXCEPT !.currentFile = file, !.loading = TRUE]
    /\ imageLoads' = imageLoads \cup {[file |-> file]}
    /\ imageZoom' = resetTransform(imageZoom)

\* loadImage(file) up to its await
LoadImageStart(file) ==
    /\ loadImage(file)
    /\ UNCHANGED urlVars

\* clearImage(): the URL in the element's src is revoked, the src and the current
\* file are dropped (with the load listener off, so no load event follows), and
\* resetTransform
clearImage ==
    /\ objectURLs' = objectURLs \ {imageViewer.src}
    /\ imageViewer' = [currentFile |-> Null, src |-> NoURL, loading |-> FALSE]
    /\ imageZoom' = [resetTransform(imageZoom) EXCEPT !.loadEvent = FALSE]
    /\ UNCHANGED << imageLoads, nextUrl >>

\* the handler's test of the file, and of the viewer's own current file
IsImage(file) == file # Null /\ heap[file].mediaType = "image"

\* a handler that keeps the image when another kind of file is selected
ImageClearsNever(file) == FALSE

\* the handler calls clearImage
ImageClears(file) == ~IsImage(file) /\ IsImage(imageViewer.currentFile)

\* the viewer's currentFileChanged handler
ImageOnCurrentFileChanged(file) ==
    IF IsImage(file)
    THEN LoadImageStart(file)
    ELSE IF ImageClears(file)
         THEN clearImage
         ELSE UNCHANGED << imageVars, urlVars >>

\* the user selects a file, or nothing: setCurrentFile, and the viewer's handler
\* runs within its emit
ImageSelect(file) ==
    /\ SetCurrentFile(file)
    /\ ImageOnCurrentFileChanged(file)

\* an onImageError that leaves the loading state on
onImageErrorStillLoading(v) == v

\* onImageError(), on the viewer v: the toast, and setLoadingState(false)
onImageError(v) == [v EXCEPT !.loading = FALSE]

\* getFileData settles for a load: an object URL is made for the blob and becomes
\* the element's src; or a rejection, which ends loadImage in its catch, where
\* onImageError is called
ImageFileData(l, ok) ==
    /\ l \in imageLoads
    /\ nextUrl <= MaxUrls
    /\ imageLoads' = imageLoads \ {l}
    /\ IF ok /\ ~getFileData(l.file).raised
       THEN LET imageUrl == createObjectURL("image", l.file)
            IN  /\ objectURLs' = objectURLs \cup {imageUrl}
                /\ nextUrl' = nextUrl + 1
                /\ imageViewer' = [imageViewer EXCEPT !.src = imageUrl]
                /\ imageZoom' = [imageZoom EXCEPT !.loadEvent = TRUE]
       ELSE /\ imageViewer' = onImageError(imageViewer)
            /\ UNCHANGED << imageZoom, urlVars >>
    /\ lastOp' = Quiet
    /\ UNCHANGED managerVars

\* ---------------------------------------------------------------- VideoPlayer
\* the duration of the media stored for a file, in seconds: the first file is the
\* long one
MediaDuration(fileId) == IF fileId = 1 THEN 20 ELSE 4

\* the positions saved for a video by an earlier session
SavedTimes == {0, 5, 10, 50}

\* a library of videos, the first with any of the saved positions
VideoLibrary(saved) ==
    [i \in Ids |-> [StoredFile(i, "video", Null) EXCEPT
                       !.lastViewedTime = IF i = 1 THEN saved ELSE 10]]

InitVideo == \E saved \in SavedTimes : InitLibrary(VideoLibrary(saved))

Abs(x) == IF x < 0 THEN 0 - x ELSE x

Max(a, b) == IF a > b THEN a ELSE b

\* a seek that keeps the position from falling below 0 only
ClampTimeBelow(time, duration) == Max(0, time)

\* Math.max(0, Math.min(this.duration, time))
ClampTime(time, duration) == Max(0, Min(duration, time))

\* a resume from the threshold on
ShouldRestoreFrom(savedTime) == savedTime >= ResumeThreshold

\* the value of 'this.currentFile.lastViewedTime && ...' that decides the resume:
\* restoreSavedPosition seeks when the saved time, capped, is beyond the threshold
ShouldRestore(savedTime) == savedTime > ResumeThreshold

\* the several update calls of one handler on the file f, in order (upd is a
\* sequence of << field, value >>): each sets its field when the file is listed
RECURSIVE ApplyUpdates(_, _, _)
ApplyUpdates(h, f, upd) ==
    IF upd = << >> THEN h
    ELSE ApplyUpdates([h EXCEPT ![f][upd[1][1]] = upd[1][2]], f, Tail(upd))

\* the burst after n more update calls
RECURSIVE BurstAfterCalls(_, _)
BurstAfterCalls(b, n) ==
    IF n = 0 THEN b
    ELSE BurstAfterCalls(IF b.n > 0 /\ b.since < DebounceWait
                         THEN [b EXCEPT !.n = Min(b.n + 1, MaxBurst), !.since = 0]
                         ELSE [n |-> 1, since |-> 0, writes |-> 0], n - 1)

\* updateVideoDuration / updateLastViewedTime called from one handler of the player
Updates(f, upd) ==
    /\ f \in DOMAIN heap
    /\ IF Contains(files, f) /\ upd # << >>
       THEN /\ heap' = ApplyUpdates(heap, f, upd)
            /\ burst' = BurstAfterCalls(burst, Len(upd))
            /\ IF AutoSaveReady
               THEN /\ timeout' = debounce(timeout, DebounceWait)
                    /\ dirtyAge' = IF dirtyAge = {} THEN {0} ELSE dirtyAge
                    /\ sinceCall' = {0}
               ELSE UNCHANGED << timeout, dirtyAge, sinceCall >>
       ELSE UNCHANGED << heap, timeout, dirtyAge, burst, sinceCall >>
    /\ UNCHANGED << db, initPc, files, currentFile, eventListeners, dbFiles,
                    dbFileData, adds, nextId, removeAllPc >>
    /\ UNCHANGED << saveVars, settingVars, shellVars >>

\* the update calls of a handler of the player p, which go to its current file
PlayerUpdates(p, upd) ==
    IF p.currentFile # Null THEN Updates(p.currentFile, upd) ELSE UNCHANGED managerVars

\* saveCurrentPosition() on the player p: the player after it, and the update it
\* calls
saveCurrentPosition(p) ==
    IF p.currentFile # Null /\ Abs(p.currentTime - p.lastSavedPosition) > SaveThreshold
    THEN [player |-> [p EXCEPT !.lastSavedPosition = p.currentTime],
          upd |-> << << "lastViewedTime", p.currentTime >> >>]
    ELSE [player |-> p, upd |-> << >>]

\* videoElement.currentTime = t: the engine keeps the position within the media once
\* it knows its duration
SetCurrentTime(e, t) ==
    [e EXCEPT !.currentTime = IF e.duration = Null THEN Max(0, t)
                              ELSE Max(0, Min(e.duration, t))]

\* seek(time) on the player p and the element e: the player, the element and the
\* updates after it
seek(p, e, time) ==
    IF p.currentFile = Null
    THEN [player |-> p, element |-> e, upd |-> << >>, sought |-> FALSE]
    ELSE [player |-> saveCurrentPosition(p).player,
          element |-> SetCurrentTime(e, ClampTime(time, p.duration)),
          upd |-> saveCurrentPosition(p).upd, sought |-> TRUE]

\* restoreSavedPosition() on the player p and the element e
restoreSavedPosition(p, e) ==
    LET saved == IF p.currentFile = Null THEN 0 ELSE heap[p.currentFile].lastViewedTime
        savedTime == Min(saved, p.duration)
    IN  IF saved # 0 /\ ShouldRestore(savedTime)
        THEN seek(p, e, savedTime)
        ELSE [player |-> p, element |-> e, upd |-> << >>, sought |-> FALSE]

\* stopAutoSave() on the player p: the timer in savePositionInterval is cleared;
\* timers counts the interval timers that were set and not cleared
stopAutoSave(p) ==
    IF p.savePositionInterval
    THEN [p EXCEPT !.savePositionInterval = FALSE, !.timers = p.timers - 1]
    ELSE p

\* a start that does not stop the timer it replaces
startAutoSaveLeaking(p) ==
    [p EXCEPT !.savePositionInterval = TRUE, !.timers = Min(p.timers + 1, 2)]

\* startAutoSave() on the player p: stopAutoSave, then setInterval
startAutoSave(p) ==
    [stopAutoSave(p) EXCEPT !.savePositionInterval = TRUE,
                            !.timers = stopAutoSave(p).timers + 1]

\* clearVideo() on the player p: stopAutoSave, currentFile = null and resetState,
\* which leaves lastSavedPosition as it is
ClearedPlayer(p) ==
    [VideoPlayerReset EXCEPT !.lastSavedPosition = p.lastSavedPosition,
                             !.savePositionInterval = stopAutoSave(p).savePositionInterval,
                             !.timers = stopAutoSave(p).timers]

\* a call of the player's interface, with the time it passed to seek
VideoOp(name, time, sought) ==
    [Quiet EXCEPT !.op = name, !.arg = time, !.result = IF sought THEN 1 ELSE Null]

\* loadVideo(file) up to its await: what it does to the player
loadVideo(file) ==
    /\ Cardinality(videoLoads) < MaxLoads
    /\ [file |-> file] \notin videoLoads
    /\ videoPlayer' = [videoPlayer EXCEPT !.currentFile = file, !.loading = TRUE]
    /\ videoLoads' = videoLoads \cup {[file |-> file]}
    /\ UNCHANGED videoElement

\* loadVideo(file) up to its await
LoadVideoStart(file) ==
    /\ loadVideo(file)
    /\ UNCHANGED urlVars

\* clearVideo(): the timer is stopped, the element paused and emptied, the URL in
\* its src revoked, and resetState
clearVideo ==
    /\ objectURLs' = objectURLs \ {videoElement.src}
    /\ videoElement' = NoMedia
    /\ videoPlayer' = ClearedPlayer(videoPlayer)
    /\ UNCHANGED << videoLoads, nextUrl >>

\* the handler's test of the file, and of the player's own current file
IsVideo(file) == file # Null /\ heap[file].mediaType = "video"

\* the handler calls clearVideo
VideoClears(file) == ~IsVideo(file) /\ IsVideo(videoPlayer.currentFile)

\* the player's currentFileChanged handler
VideoOnCurrentFileChanged(file) ==
    IF IsVideo(file)
    THEN LoadVideoStart(file)
    ELSE IF VideoClears(file)
         THEN clearVideo
         ELSE UNCHANGED << videoVars, urlVars >>

\* the user selects a file, or nothing: setCurrentFile, and the player's handler
\* runs within its emit
VideoSelect(file) ==
    /\ SetCurrentFile(file)
    /\ VideoOnCurrentFileChanged(file)

\* getFileData settles for a load: an object URL is made for the blob, becomes the
\* element's src and load() empties the element; or a rejection, which ends
\* loadVideo in its catch, where setLoadingState(false) is called
VideoFileData(l, ok) ==
    /\ l \in videoLoads
    /\ nextUrl <= MaxUrls
    /\ videoLoads' = videoLoads \ {l}
    /\ IF ok /\ ~getFileData(l.file).raised
       THEN LET videoUrl == createObjectURL("video", l.file)
            IN  /\ objectURLs' = objectURLs \cup {videoUrl}
                /\ nextUrl' = nextUrl + 1
                /\ videoElement' = [NoMedia EXCEPT !.src = videoUrl]
                /\ UNCHANGED videoPlayer
       ELSE /\ videoPlayer' = [videoPlayer EXCEPT !.loading = FALSE]
            /\ UNCHANGED << videoElement, urlVars >>
    /\ lastOp' = Quiet
    /\ UNCHANGED managerVars

\* the engine has read the metadata of the element's source: durationchange.
\* onDurationChange takes the duration, reports it for the current file and
\* restores the saved position
OnDurationChange ==
    /\ videoElement.src # NoURL /\ videoElement.duration = Null
    /\ LET e == SetCurrentTime([videoElement EXCEPT !.duration = MediaDuration(videoElement.src.file)],
                               videoElement.currentTime)
           p == [videoPlayer EXCEPT !.duration = e.duration]
           r == restoreSavedPosition(p, e)
       IN  /\ videoPlayer' = r.player
           /\ videoElement' = r.element
           /\ PlayerUpdates(p, << << "videoDuration", p.duration >> >> \o r.upd)
           /\ lastOp' = VideoOp("onDurationChange", Min(IF p.currentFile = Null THEN 0
                                                         ELSE heap[p.currentFile].lastViewedTime,
                                                        p.duration), r.sought)
    /\ UNCHANGED << videoLoads, urlVars >>

\* seek(time), called by the user interface
Seek(time) ==
    /\ LET r == seek(videoPlayer, videoElement, time)
       IN  /\ videoPlayer' = r.player
           /\ videoElement' = r.element
           /\ PlayerUpdates(videoPlayer, r.upd)
           /\ lastOp' = VideoOp("seek", time, r.sought)
    /\ UNCHANGED << videoLoads, urlVars >>

\* rewind() and forward()
Rewind == Seek(videoPlayer.currentTime - SeekStep)

Forward == Seek(videoPlayer.currentTime + SeekStep)

\* the keyboard shortcuts that seek, which act while a video is the current file
SeekKeys == {"ArrowLeft", "ArrowRight", "ArrowUp", "ArrowDown", "Home", "End"}

KeyTime(key) ==
    CASE key = "ArrowLeft"  -> Max(0, videoPlayer.currentTime - SeekStep)
      [] key = "ArrowRight" -> Min(videoPlayer.duration, videoPlayer.currentTime + SeekStep)
      [] key = "ArrowUp"    -> Max(0, videoPlayer.currentTime - LongSeekStep)
      [] key = "ArrowDown"  -> Min(videoPlayer.duration, videoPlayer.currentTime + LongSeekStep)
      [] key = "Home"       -> 0
      [] key = "End"        -> videoPlayer.duration

KeyDown(key) ==
    IF videoPlayer.currentFile # Null /\ heap[videoPlayer.currentFile].mediaType = "video"
    THEN Seek(KeyTime(key))
    ELSE lastOp' = Quiet /\ UNCHANGED << managerVars, videoVars, urlVars >>

\* the slider: startSeeking, onSliderInput, onSliderChange, endSeeking
StartSeeking ==
    /\ videoPlayer' = [videoPlayer EXCEPT !.isSeeking = TRUE]
    /\ lastOp' = Quiet
    /\ UNCHANGED << managerVars, videoElement, videoLoads, urlVars >>

EndSeeking ==
    /\ videoPlayer' = [videoPlayer EXCEPT !.isSeeking = FALSE]
    /\ lastOp' = Quiet
    /\ UNCHANGED << managerVars, videoElement, videoLoads, urlVars >>

SliderTime(value) == (value * videoPlayer.duration) \div 100

OnSliderInput(value) ==
    /\ videoPlayer' = IF videoPlayer.currentFile = Null THEN videoPlayer
                      ELSE [videoPlayer EXCEPT !.currentTime = SliderTime(value)]
    /\ lastOp' = Quiet
    /\ UNCHANGED << managerVars, videoElement, videoLoads, urlVars >>

OnSliderChange(value) ==
    IF videoPlayer.currentFile # Null
    THEN Seek(SliderTime(value))
    ELSE lastOp' = Quiet /\ UNCHANGED << managerVars, videoVars, urlVars >>

\* play(): the element starts playing (the play event sets isPlaying) and the
\* interval timer is started; without a playable source the promise rejects
Play ==
    /\ videoPlayer.currentFile # Null
    /\ IF videoElement.src # NoURL /\ videoElement.duration # Null
       THEN /\ videoElement' = [videoElement EXCEPT !.paused = FALSE]
            /\ videoPlayer' = startAutoSave([videoPlayer EXCEPT !.isPlaying = TRUE])
       ELSE UNCHANGED << videoPlayer, videoElement >>
    /\ lastOp' = VideoOp("play", 0, FALSE)
    /\ UNCHANGED << managerVars, videoLoads, urlVars >>

\* pause(): the element pauses (the pause event clears isPlaying) and the position
\* is saved
Pause ==
    /\ videoElement' = [videoElement EXCEPT !.paused = TRUE]
    /\ LET r == saveCurrentPosition([videoPlayer EXCEPT !.isPlaying = FALSE])
       IN  /\ videoPlayer' = r.player
           /\ PlayerUpdates(videoPlayer, r.upd)
    /\ lastOp' = VideoOp("pause", videoPlayer.currentTime, FALSE)
    /\ UNCHANGED << videoLoads, urlVars >>

\* timeupdate: playback has moved on by dt seconds (0 after a seek, or when
\* paused), and onTimeUpdate takes the element's position unless the slider is held
OnTimeUpdate(dt) ==
    /\ videoElement.src # NoURL /\ videoElement.duration # Null
    /\ dt > 0 => ~videoElement.paused /\ videoElement.currentTime < videoElement.duration
    /\ LET e == SetCurrentTime(videoElement, videoElement.currentTime + dt)
       IN  /\ videoElement' = e
           /\ videoPlayer' = IF videoPlayer.isSeeking THEN videoPlayer
                             ELSE [videoPlayer EXCEPT !.currentTime = e.currentTime]
    /\ lastOp' = Quiet
    /\ UNCHANGED << managerVars, videoLoads, urlVars >>

\* ended: playback reached the end of the media; onEnded saves the position
OnEnded ==
    /\ ~videoElement.paused /\ videoElement.duration # Null
    /\ videoElement.currentTime = videoElement.duration
    /\ videoElement' = [videoElement EXCEPT !.paused = TRUE]
    /\ LET r == saveCurrentPosition([videoPlayer EXCEPT !.isPlaying = FALSE])
       IN  /\ videoPlayer' = r.player
           /\ PlayerUpdates(videoPlayer, r.upd)
    /\ lastOp' = VideoOp("onEnded", videoPlayer.currentTime, FALSE)
    /\ UNCHANGED << videoLoads, urlVars >>

\* a tick of the interval timer that startAutoSave set
AutoSaveTick ==
    /\ videoPlayer.timers > 0
    /\ LET r == saveCurrentPosition(videoPlayer)
       IN  /\ videoPlayer' = r.player
           /\ PlayerUpdates(videoPlayer, r.upd)
    /\ lastOp' = Quiet
    /\ UNCHANGED << videoElement, videoLoads, urlVars >>

\* -------------------------------------------- ImageViewer: events and gestures
\* naturalWidth and naturalHeight of the image stored for a file: the first is wide
\* and large, every other small
NaturalSize(fileId) ==
    IF fileId = 1 THEN [width |-> 520, height |-> 160] ELSE [width |-> 10, height |-> 10]

\* the sizes getBoundingClientRect reports for the container
ContainerRects == {[width |-> 100, height |-> 100], [width |-> 560, height |-> 400]}

\* updateContainerSize() for a container of the size rect
updateContainerSize(z, rect) ==
    [z EXCEPT !.containerSize = [width |-> IF rect.width > 300 THEN rect.width ELSE 300,
                                 height |-> IF rect.height > 200 THEN rect.height ELSE 200]]

\* a step of the image viewer that changes the zoom state only
ZoomStep(z) ==
    /\ imageZoom' = z
    /\ lastOp' = Quiet
    /\ UNCHANGED << managerVars, imageViewer, imageLoads, urlVars >>

\* a gesture of the user, which changes the zoom state only
Gesture(z) ==
    /\ imageZoom.gestures < MaxGestures
    /\ ZoomStep([z EXCEPT !.gestures = imageZoom.gestures + 1])

\* a touch event that leaves down touches down, which changes the zoom state only;
\* a touchmove that follows the lifting of one of two touches is marked
TouchEvent(z, name, down) ==
    /\ imageZoom.gestures < MaxTouchEvents
    /\ imageZoom' = [z EXCEPT !.gestures = imageZoom.gestures + 1]
    /\ lastOp' = [Quiet EXCEPT !.op = name, !.arg = down,
                               !.result = IF /\ name = "touchmove"
                                             /\ lastOp.op = "touchend"
                                             /\ lastOp.arg = 1
                                          THEN 1 ELSE Null]
    /\ UNCHANGED << managerVars, imageViewer, imageLoads, urlVars >>

\* the load event of the element: onImageLoad takes the sizes and sets the timer
OnImageLoad(rect) ==
    /\ imageZoom.loadEvent
    /\ imageZoom' = [updateContainerSize(imageZoom, rect) EXCEPT
                        !.imageNaturalSize = NaturalSize(imageViewer.src.file),
                        !.loadEvent = FALSE, !.fitTimer = TRUE]
    /\ imageViewer' = [imageViewer EXCEPT !.loading = FALSE]
    /\ lastOp' = Quiet
    /\ UNCHANGED << managerVars, imageLoads, urlVars >>

\* the timer of onImageLoad fires
FitTimer ==
    /\ imageZoom.fitTimer
    /\ ZoomStep([centerImage(fitImageToContainer(imageZoom)) EXCEPT !.fitTimer = FALSE])

\* the ResizeObserver callback
OnResize(rect) ==
    Gesture(fitImageToContainer(updateContainerSize(imageZoom, rect)))

\* the viewer has a current file
ImageShown == imageViewer.currentFile # Null

\* the buttons
ZoomInButton == Gesture(zoomIn(imageZoom))

ZoomOutButton == Gesture(zoomOut(imageZoom))

ZoomResetButton == Gesture(resetZoom(imageZoom))

\* the keys +, -, 0 and f, which act while an image is the current file
ImageKeys == {"+", "-", "0", "f"}

ImageKeyDown(key) ==
    Gesture(IF ~ImageShown \/ heap[imageViewer.currentFile].mediaType # "image"
            THEN imageZoom
            ELSE CASE key = "+" -> zoomIn(imageZoom)
                   [] key = "-" -> zoomOut(imageZoom)
                   [] key = "0" -> resetZoom(imageZoom)
                   [] key = "f" -> fitImageToContainer(imageZoom))

\* where the pointer and the touches are, in pixels from the corner of the container
Points == {Point(0, 100), Point(150, 100), Point(250, 100)}

\* where the wheel turns and the double click falls
FocalPoints == {Point(0, 100), Point(150, 100)}

\* the wheel at c
Wheel(c, deltaY) ==
    Gesture(IF ImageShown THEN handleWheel(imageZoom, c, deltaY) ELSE imageZoom)

\* a double click at c
DoubleClick(c) ==
    Gesture(IF ImageShown THEN handleDoubleClick(imageZoom, c) ELSE imageZoom)

\* the zoom states a caller restores
ZoomInfos ==
    { [scale |-> Whole(0), panOffset |-> Point(0, 0)],
      [scale |-> Whole(10), panOffset |-> Point(0, 0)],
      [scale |-> Frac(1, 20), panOffset |-> Point(150, 100)] }

SetZoomInfo(info) == Gesture(setZoomInfo(imageZoom, info))

\* handlePointerStart(e) at p
handlePointerStart(z, p) ==
    IF ~ImageShown THEN z ELSE [z EXCEPT !.isDragging = TRUE, !.lastPointerPos = p]

\* handlePointerMove(e) at p
handlePointerMove(z, p) ==
    IF ~z.isDragging \/ ~ImageShown THEN z
    ELSE [z EXCEPT !.panOffset = [x |-> FAdd(@.x, FSub(p.x, z.lastPointerPos.x)),
                                  y |-> FAdd(@.y, FSub(p.y, z.lastPointerPos.y))],
                   !.lastPointerPos = p]

\* handlePointerEnd(e)
handlePointerEnd(z) == [z EXCEPT !.isDragging = FALSE]

\* the mouse: mousedown, mousemove, mouseup or mouseleave
MouseDown(p) == Gesture(handlePointerStart(imageZoom, p))

MouseMove(p) == Gesture(handlePointerMove(imageZoom, p))

MouseUp == Gesture(handlePointerEnd(imageZoom))

\* Math.sqrt of a square
Sqrt(v) == CHOOSE r \in 0..v : r * r <= v /\ (r + 1) * (r + 1) > v

\* getTouchDistance and getTouchCenter of two touches (at whole pixels)
getTouchDistance(t1, t2) ==
    Sqrt((t2.x.n - t1.x.n) * (t2.x.n - t1.x.n) + (t2.y.n - t1.y.n) * (t2.y.n - t1.y.n))

getTouchCenter(t1, t2) ==
    [x |-> FDiv(FAdd(t1.x, t2.x), Whole(2)), y |-> FDiv(FAdd(t1.y, t2.y), Whole(2))]

\* endPinchZoom()
endPinchZoom(z) == [z EXCEPT !.initialPinchDistance = 0, !.initialScale = Whole(1)]

\* handleTouchStart(e) with the touches ts down
handleTouchStart(z, ts) ==
    IF ~ImageShown THEN z
    ELSE IF Len(ts) = 1 THEN handlePointerStart(z, ts[1])
    ELSE IF Len(ts) = 2
         THEN [z EXCEPT !.isDragging = FALSE,
                        !.initialPinchDistance = getTouchDistance(ts[1], ts[2]),
                        !.initialScale = z.scale]
    ELSE z

\* handleTouchMove(e) with the touches ts down
handleTouchMove(z, ts) ==
    IF ~ImageShown THEN z
    ELSE IF Len(ts) = 1 /\ z.isDragging THEN handlePointerMove(z, ts[1])
    ELSE IF Len(ts) = 2 /\ z.initialPinchDistance > 0
         THEN setScale(z, FMul(z.initialScale,
                               Frac(getTouchDistance(ts[1], ts[2]), z.initialPinchDistance)),
                       {getTouchCenter(ts[1], ts[2])})
    ELSE z

\* a handleTouchEnd that ends the pinch and starts no pan at the remaining touch
handleTouchEndUnanchored(z, ts) ==
    IF Len(ts) = 0 THEN endPinchZoom(handlePointerEnd(z))
    ELSE IF Len(ts) = 1 THEN [endPinchZoom(z) EXCEPT !.isDragging = TRUE]
    ELSE z

\* handleTouchEnd(e) with the touches ts still down
handleTouchEnd(z, ts) ==
    IF Len(ts) = 0 THEN endPinchZoom(handlePointerEnd(z))
    ELSE IF Len(ts) = 1 THEN handlePointerStart(endPinchZoom(z), ts[1])
    ELSE z

\* the sequence ts without its i-th element
Without(ts, i) == [k \in 1..(Len(ts) - 1) |-> IF k < i THEN ts[k] ELSE ts[k + 1]]

\* a touch goes down at p, the i-th touch moves to p, the i-th touch lifts
TouchStart(p) ==
    /\ Len(imageZoom.touches) < MaxTouches
    /\ \A k \in 1..Len(imageZoom.touches) : imageZoom.touches[k] # p
    /\ LET ts == Append(imageZoom.touches, p)
       IN  TouchEvent([handleTouchStart(imageZoom, ts) EXCEPT !.touches = ts], "touchstart", Len(ts))

TouchMove(i, p) ==
    /\ i \in 1..Len(imageZoom.touches)
    /\ \A k \in 1..Len(imageZoom.touches) : imageZoom.touches[k] # p
    /\ LET ts == [imageZoom.touches EXCEPT ![i] = p]
       IN  TouchEvent([handleTouchMove(imageZoom, ts) EXCEPT !.touches = ts], "touchmove", Len(ts))

TouchEnd(i) ==
    /\ i \in 1..Len(imageZoom.touches)
    /\ LET ts == Without(imageZoom.touches, i)
       IN  TouchEvent([handleTouchEnd(imageZoom, ts) EXCEPT !.touches = ts], "touchend", Len(ts))

\* -------------------------------------- currentFileChanged: the three handlers
\* a library with a document, an image and a video
ViewerLibrary ==
    [i \in AllIds |-> IF i = 1 THEN StoredFile(i, "pdf", NumPages(i))
                      ELSE IF i = 2 THEN StoredFile(i, "image", Null)
                      ELSE StoredFile(i, "video", Null)]

\* the content of any of the files may be missing from the store 'fileData'
InitViewers == \E content \in SUBSET AllIds : InitStored(ViewerLibrary, content)

\* the user selects a file, or nothing: setCurrentFile, within whose emit the
\* handler of the document viewer, of the image viewer and of the video player run,
\* each loading the file when it is of its type and else clearing what it shows of
\* its type
SelectFile(file) ==
    /\ SetCurrentFile(file)
    /\ PdfOnCurrentFileChanged(file)
    /\ IF IsImage(file) THEN loadImage(file)
       ELSE IF ImageClears(file)
            THEN /\ imageViewer' = [currentFile |-> Null, src |-> NoURL, loading |-> FALSE]
                 /\ imageZoom' = [resetTransform(imageZoom) EXCEPT !.loadEvent = FALSE]
                 /\ UNCHANGED imageLoads
            ELSE UNCHANGED imageVars
    /\ IF IsVideo(file) THEN loadVideo(file)
       ELSE IF VideoClears(file)
            THEN /\ videoElement' = NoMedia
                 /\ videoPlayer' = ClearedPlayer(videoPlayer)
                 /\ UNCHANGED videoLoads
            ELSE UNCHANGED videoVars
    /\ objectURLs' = (objectURLs \ (IF ImageClears(file) THEN {imageViewer.src} ELSE {}))
                        \ (IF VideoClears(file) THEN {videoElement.src} ELSE {})
    /\ UNCHANGED nextUrl

\* ------------------------------------------- PinkReaderApp: the import entry points
\* the File objects the user picks or drops: those of RawFiles, a text file, a
\* file without an extension, and an image with two extensions that declares
\* itself a pdf
PickedFiles ==
    RawFiles \cup
    { [name |-> <<"notes", "txt">>, type |-> "text/plain", data |-> <<104, 105>>],
      [name |-> <<"README">>, type |-> "", data |-> <<35>>],
      [name |-> <<"x", "pdf", "PNG">>, type |-> "application/pdf", data |-> <<137, 80>>] }

\* isValidFile(file)
isValidFile(file) == getMediaType(file.name) \in {"pdf", "image", "video"}

\* importFiles(validFiles) for the files that passed the filter: addFile is called
\* (the picker and the drop hand over one file at a time here)
importFiles(file) ==
    IF isValidFile(file)
    THEN AddFileStart(file)
    ELSE lastOp' = Quiet /\ UNCHANGED managerVars

\* handleFileInput: the change event of the file picker
HandleFileInput(file) == importFiles(file)

\* the drop handlers of the document and of the drop zone
Drop(file) == importFiles(file)

\* the manager ready, with an empty library
InitImport == InitLibrary(EmptyStore)

\* ------------------------------------------------------------------ Next
\* the library: initialisation, import, removal, selection, shutdown
Next ==
    \/ InitDBSuccess /\ UNCHANGED viewerVars
    \/ InitDBError /\ UNCHANGED viewerVars
    \/ LoadFilesSuccess /\ UNCHANGED viewerVars
    \/ LoadFilesError /\ UNCHANGED viewerVars
    \/ \E ok \in BOOLEAN : LoadSettingsDone(ok) /\ UNCHANGED viewerVars
    \/ \E file \in RawFiles : AddFileStart(file) /\ UNCHANGED viewerVars
    \/ \E t \in adds : AddFileStoreData(t) /\ UNCHANGED viewerVars
    \/ \E t \in adds : AddFileStoreError(t) /\ UNCHANGED viewerVars
    \/ \E t \in adds : AddFileStored(t) /\ UNCHANGED viewerVars
    \/ \E t \in adds, n \in {Null, MaxPage} : AddFileCounted(t, n) /\ UNCHANGED viewerVars
    \/ \E f \in AllIds, ok \in BOOLEAN : RemoveFile(f, ok) /\ UNCHANGED viewerVars
    \/ \E ok \in BOOLEAN : RemoveAllFiles(ok) /\ UNCHANGED viewerVars
    \/ RemoveAllFilesDone /\ UNCHANGED viewerVars
    \/ RemoveAllFilesError /\ UNCHANGED viewerVars
    \/ \E f \in AllIds \cup {Null} : SetCurrentFile(f) /\ UNCHANGED viewerVars
    \/ Dispose /\ UNCHANGED viewerVars

Spec == Init /\ [][Next]_vars

\* the auto-save: the update calls, the debounce timer, saveFiles, time
NextSave ==
    \/ InitDBSuccess /\ UNCHANGED viewerVars
    \/ LoadFilesSuccess /\ UNCHANGED viewerVars
    \/ LoadFilesError /\ UNCHANGED viewerVars
    \/ \E ok \in BOOLEAN : LoadSettingsDone(ok) /\ UNCHANGED viewerVars
    \/ \E f \in AllIds : RemoveFile(f, TRUE) /\ UNCHANGED viewerVars
    \/ \E f \in AllIds, page \in 1..MaxPage : UpdateLastViewedPage(f, page) /\ UNCHANGED viewerVars
    \/ \E f \in AllIds, time \in Times : UpdateLastViewedTime(f, time) /\ UNCHANGED viewerVars
    \/ \E f \in AllIds, duration \in Times : UpdateVideoDuration(f, duration) /\ UNCHANGED viewerVars
    \/ DebounceFire /\ UNCHANGED viewerVars
    \/ SaveFilesCleared /\ UNCHANGED viewerVars
    \/ SaveFilesAdded /\ UNCHANGED viewerVars
    \/ SaveFilesError /\ UNCHANGED viewerVars
    \/ \E dt \in Steps : Tick(dt) /\ UNCHANGED viewerVars
    \/ Dispose /\ UNCHANGED viewerVars

SpecSave == Init /\ [][NextSave]_vars

\* the emitter under a client's subscriptions
NextEmit ==
    \/ \E event \in ClientEvents, callback \in Callbacks : On(event, callback) /\ UNCHANGED viewerVars
    \/ \E event \in ClientEvents, callback \in Callbacks : Off(event, callback) /\ UNCHANGED viewerVars
    \/ \E event \in ClientEvents, data \in {Null} \cup Ids : Emit(event, data) /\ UNCHANGED viewerVars

SpecEmit == InitEmit /\ [][NextEmit]_vars

\* the document viewer on a library of pdf files
NextPdf ==
    \/ \E file \in AllIds \cup {Null} : PdfSelect(file) /\ UNCHANGED notPdfVars
    \/ \E l \in pdfLoads, ok \in BOOLEAN : PdfFileData(l, ok) /\ UNCHANGED notPdfVars
    \/ \E l \in pdfLoads : PdfDocumentLoaded(l) /\ UNCHANGED notPdfVars
    \/ PdfGetPage /\ UNCHANGED notPdfVars
    \/ PdfRendered /\ UNCHANGED notPdfVars
    \/ PdfRenderCancelled /\ UNCHANGED notPdfVars
    \/ \E pageNumber \in 0..(MaxPage + 1) : GoToPage(pageNumber) /\ UNCHANGED notPdfVars
    \/ PreviousPage /\ UNCHANGED notPdfVars
    \/ NextPage /\ UNCHANGED notPdfVars

SpecPdf == InitPdf /\ [][NextPdf]_vars

\* the image viewer on a library of images
NextImage ==
    \/ \E file \in AllIds \cup {Null} : ImageSelect(file) /\ UNCHANGED notImageVars
    \/ \E l \in imageLoads, ok \in BOOLEAN : ImageFileData(l, ok) /\ UNCHANGED notImageVars

SpecImage == InitImage /\ [][NextImage]_vars

\* the media player showing the long video of the library, the user seeking in it
SeekTimes == {-5, 10, 50}

PlaybackSteps == {0, 10}

SliderValues == {50}

NextVideo ==
    \/ \E file \in {1, Null} : VideoSelect(file) /\ UNCHANGED notVideoVars
    \/ \E l \in videoLoads, ok \in BOOLEAN : VideoFileData(l, ok) /\ UNCHANGED notVideoVars
    \/ OnDurationChange /\ UNCHANGED notVideoVars
    \/ \E time \in SeekTimes : Seek(time) /\ UNCHANGED notVideoVars
    \/ Rewind /\ UNCHANGED notVideoVars
    \/ Forward /\ UNCHANGED notVideoVars
    \/ \E key \in SeekKeys : KeyDown(key) /\ UNCHANGED notVideoVars
    \/ StartSeeking /\ UNCHANGED notVideoVars
    \/ EndSeeking /\ UNCHANGED notVideoVars
    \/ \E value \in SliderValues : OnSliderInput(value) /\ UNCHANGED notVideoVars
    \/ \E value \in SliderValues : OnSliderChange(value) /\ UNCHANGED notVideoVars
    \/ OnTimeUpdate(0) /\ UNCHANGED notVideoVars

SpecVideo == InitVideo /\ [][NextVideo]_vars

\* the three viewers on one library, some files of which have no content stored
NextViewers ==
    \/ \E file \in AllIds \cup {Null} : SelectFile(file)
    \/ \E l \in pdfLoads, ok \in BOOLEAN : PdfFileData(l, ok) /\ UNCHANGED notPdfVars
    \/ \E l \in pdfLoads : PdfDocumentLoaded(l) /\ UNCHANGED notPdfVars
    \/ \E l \in imageLoads, ok \in BOOLEAN : ImageFileData(l, ok) /\ UNCHANGED notImageVars
    \/ \E l \in videoLoads, ok \in BOOLEAN : VideoFileData(l, ok) /\ UNCHANGED notVideoVars

SpecViewers == InitViewers /\ [][NextViewers]_vars

\* the start of the application and the two settings: init, the shell's wait for
\* the manager, and the toggles with their writes
NextSettings ==
    \/ InitDBSuccess /\ UNCHANGED viewerVars
    \/ InitDBError /\ UNCHANGED viewerVars
    \/ LoadFilesSuccess /\ UNCHANGED viewerVars
    \/ LoadFilesError /\ UNCHANGED viewerVars
    \/ \E ok \in BOOLEAN : LoadSettingsDone(ok) /\ UNCHANGED viewerVars
    \/ CheckInit /\ UNCHANGED viewerVars
    \/ \E key \in SettingKeys : ToggleStart(key) /\ UNCHANGED viewerVars
    \/ \E ok \in BOOLEAN : ToggleEnd(ok) /\ UNCHANGED viewerVars

\* the timer of checkInit fires again and again, and every request to the store ends
SpecSettings ==
    /\ Init
    /\ [][NextSettings]_vars
    /\ WF_vars(CheckInit /\ UNCHANGED viewerVars)
    /\ WF_vars((InitDBSuccess \/ InitDBError) /\ UNCHANGED viewerVars)
    /\ WF_vars((LoadFilesSuccess \/ LoadFilesError) /\ UNCHANGED viewerVars)
    /\ WF_vars((\E ok \in BOOLEAN : LoadSettingsDone(ok)) /\ UNCHANGED viewerVars)

\* the image viewer showing the large image of the library: the buttons, the keys,
\* the wheel, the double click and the restoring of a zoom state
NextZoom ==
    \/ \E file \in {1, Null} : ImageSelect(file) /\ UNCHANGED notImageVars
    \/ \E l \in imageLoads, ok \in BOOLEAN : ImageFileData(l, ok) /\ UNCHANGED notImageVars
    \/ \E rect \in ContainerRects : OnImageLoad(rect) /\ UNCHANGED notImageVars
    \/ FitTimer /\ UNCHANGED notImageVars
    \/ \E rect \in ContainerRects : OnResize(rect) /\ UNCHANGED notImageVars
    \/ ZoomInButton /\ UNCHANGED notImageVars
    \/ ZoomOutButton /\ UNCHANGED notImageVars
    \/ ZoomResetButton /\ UNCHANGED notImageVars
    \/ \E key \in ImageKeys : ImageKeyDown(key) /\ UNCHANGED notImageVars
    \/ \E c \in FocalPoints, deltaY \in {-1, 1} : Wheel(c, deltaY) /\ UNCHANGED notImageVars
    \/ \E c \in FocalPoints : DoubleClick(c) /\ UNCHANGED notImageVars
    \/ \E info \in ZoomInfos : SetZoomInfo(info) /\ UNCHANGED notImageVars

SpecZoom == InitImage /\ [][NextZoom]_vars

\* the image viewer showing the large image: the mouse and the touches
NextTouch ==
    \/ \E file \in {1, Null} : ImageSelect(file) /\ UNCHANGED notImageVars
    \/ \E l \in imageLoads, ok \in BOOLEAN : ImageFileData(l, ok) /\ UNCHANGED notImageVars
    \/ \E rect \in ContainerRects : OnImageLoad(rect) /\ UNCHANGED notImageVars
    \/ FitTimer /\ UNCHANGED notImageVars
    \/ \E p \in Points : MouseDown(p) /\ UNCHANGED notImageVars
    \/ \E p \in Points : MouseMove(p) /\ UNCHANGED notImageVars
    \/ MouseUp /\ UNCHANGED notImageVars
    \/ \E p \in Points : TouchStart(p) /\ UNCHANGED notImageVars
    \/ \E i \in 1..MaxTouches, p \in Points : TouchMove(i, p) /\ UNCHANGED notImageVars
    \/ \E i \in 1..MaxTouches : TouchEnd(i) /\ UNCHANGED notImageVars

SpecTouch == InitImage /\ [][NextTouch]_vars

\* the import entry points and the addFile calls they make
NextImport ==
    \/ \E file \in PickedFiles : HandleFileInput(file) /\ UNCHANGED viewerVars
    \/ \E file \in PickedFiles : Drop(file) /\ UNCHANGED viewerVars
    \/ \E t \in adds : AddFileStoreData(t) /\ UNCHANGED viewerVars
    \/ \E t \in adds : AddFileStoreError(t) /\ UNCHANGED viewerVars
    \/ \E t \in adds : AddFileStored(t) /\ UNCHANGED viewerVars
    \/ \E t \in adds, n \in {Null, MaxPage} : AddFileCounted(t, n) /\ UNCHANGED viewerVars

SpecImport == InitImport /\ [][NextImport]_vars

\* the media player playing the videos of the library
NextPlay ==
    \/ \E file \in Ids \cup {Null} : VideoSelect(file) /\ UNCHANGED notVideoVars
    \/ \E l \in videoLoads, ok \in BOOLEAN : VideoFileData(l, ok) /\ UNCHANGED notVideoVars
    \/ OnDurationChange /\ UNCHANGED notVideoVars
    \/ Play /\ UNCHANGED notVideoVars
    \/ Pause /\ UNCHANGED notVideoVars
    \/ \E dt \in PlaybackSteps : OnTimeUpdate(dt) /\ UNCHANGED notVideoVars
    \/ OnEnded /\ UNCHANGED notVideoVars
    \/ AutoSaveTick /\ UNCHANGED notVideoVars

SpecPlay == InitVideo /\ [][NextPlay]_vars

\* ================================================================ properties
\* position of the first emit of `event` in a call's emits, 0 when there is none
FirstEmit(emits, event) ==
    IF \E i \in 1..Len(emits) : emits[i].event = event
    THEN CHOOSE i \in 1..Len(emits) :
            emits[i].event = event /\ \A j \in 1..(i - 1) : emits[j].event # event
    ELSE 0

\* the call just made was removeFile on the file that was current
RemovedCurrent == lastOp.op = "removeFile" /\ lastOp.before = lastOp.arg

\* ---------------------------------------------------------------------- C1
\* C1: removeFile(f) called while f is the current file ends with the current
\* file being none or a file still in the in-memory list, for every list and every
\* outcome of the storage delete.  (Spec; violated)
C1_RemoveCurrentLeavesListedOrNone ==
    RemovedCurrent => (currentFile = Null \/ Contains(files, currentFile))

\* ---------------------------------------------------------------------- C2
\* C2: when persisting the content fails during addFile, addFile fails and the
\* list, the current file and the emitted notifications are what they were before
\* the call; the file is in the list at no time, not while the call is in flight
\* either.  (Spec)
C2_FailedAddLeavesNothing ==
    /\ [](\A t \in adds : ~Contains(files, t.id))
    /\ [][(lastOp'.op = "addFile" /\ lastOp'.raised)
            => /\ files' = files
               /\ currentFile' = currentFile
               /\ lastOp'.emits = << >>
               /\ ~Contains(files', lastOp'.arg)
               /\ fileGrid' = fileGrid /\ tabs' = tabs]_vars

\* an addFile has failed on a library that holds a file and has a current file
C2_Witness ==
    /\ lastOp.op = "addFile" /\ lastOp.raised
    /\ Len(files) > 0
    /\ currentFile # Null

\* ---------------------------------------------------------------------- C3
\* C3 as amended: a successful addFile appends the new file at the end of the
\* list, makes it the current file and emits currentFileChanged carrying the new
\* file and then filesChanged carrying the list that contains it.  (Spec)
C3_AddFileSelectsThenAnnouncesList ==
    [][(lastOp'.op = "addFile" /\ ~lastOp'.raised)
        => /\ files' = Append(files, lastOp'.arg)
           /\ currentFile' = lastOp'.arg
           /\ Len(lastOp'.emits) = 2
           /\ lastOp'.emits[1].event = "currentFileChanged"
           /\ lastOp'.emits[1].data = lastOp'.arg
           /\ lastOp'.emits[2].event = "filesChanged"
           /\ lastOp'.emits[2].data = files'
           /\ Contains(lastOp'.emits[2].data, lastOp'.arg)]_vars

\* a file was added to a library that held another file, which was current
C3_Witness ==
    /\ lastOp.op = "addFile" /\ ~lastOp.raised
    /\ Len(files) >= 2
    /\ lastOp.before # Null
    /\ currentFile = lastOp.arg

\* C3 as stated: a successful addFile emits filesChanged before
\* currentFileChanged.  (Spec; violated)
C3_ListAnnouncedBeforeSelection ==
    (lastOp.op = "addFile" /\ ~lastOp.raised)
        => /\ FirstEmit(lastOp.emits, "filesChanged") > 0
           /\ FirstEmit(lastOp.emits, "filesChanged")
                < FirstEmit(lastOp.emits, "currentFileChanged")

\* ---------------------------------------------------------------------- C4
\* C4 as amended: setCurrentFile(x) sets the current pointer to x and emits exactly
\* one currentFileChanged carrying x, also when x is the file that is current
\* already; only setCurrentFile(none) while the current file is none emits
\* nothing.  (Spec)
C4_SetCurrentFileNotifiesUnlessNoneToNone ==
    lastOp.op = "setCurrentFile"
        => /\ currentFile = lastOp.arg
           /\ IF lastOp.arg = Null /\ lastOp.before = Null
              THEN lastOp.emits = << >>
              ELSE /\ Len(lastOp.emits) = 1
                   /\ lastOp.emits[1].event = "currentFileChanged"
                   /\ lastOp.emits[1].data = lastOp.arg

\* the current file was selected again, and one notification carried it
C4_Witness ==
    /\ lastOp.op = "setCurrentFile"
    /\ lastOp.arg # Null
    /\ lastOp.before = lastOp.arg
    /\ Len(lastOp.emits) = 1

\* C4 as stated: every setCurrentFile(x) sets the pointer to x and emits exactly
\* one currentFileChanged carrying x.  (Spec; violated)
C4_SetCurrentFileAlwaysNotifies ==
    lastOp.op = "setCurrentFile"
        => /\ currentFile = lastOp.arg
           /\ Len(lastOp.emits) = 1
           /\ lastOp.emits[1].event = "currentFileChanged"
           /\ lastOp.emits[1].data = lastOp.arg

\* ---------------------------------------------------------------------- C5
\* C5: removeFile(f) removes f from the list, re-selects the current file when f
\* was current and emits filesChanged, whether the storage delete succeeds, fails
\* or cannot be started; the removal is never half-applied.  (Spec; violated)
C5_RemoveFileCompletesDespiteStorage ==
    lastOp.op = "removeFile"
        => /\ ~Contains(files, lastOp.arg)
           /\ FirstEmit(lastOp.emits, "filesChanged") > 0
           /\ (lastOp.before = lastOp.arg => currentFile # lastOp.arg)

\* ---------------------------------------------------------------------- C6
\* C6: a burst of N >= 1 update calls, each less than one debounce window after
\* the one before, produces exactly one write of the files collection, issued one
\* window after the last call: none before the window has passed since the last
\* call, one once it has passed.  (SpecSave; violated)
C6_BurstYieldsOneWriteAfterWindow ==
    burst.n >= 1
        => /\ (burst.since < DebounceWait => burst.writes = 0)
           /\ (burst.since = DebounceWait
                 => (burst.writes = 1 \/ (burst.writes = 0 /\ timeout = {0})))
           /\ (burst.since > DebounceWait => burst.writes = 1)

\* ---------------------------------------------------------------------- C7
\* C7 as amended: every call of the debounced save (an update call on a listed
\* file once setupAutoSave has run, or a filesChanged delivered to it) restarts the
\* window; a timer is pending exactly when such a call was made and no write was
\* issued since, and it fires, issuing the write, exactly one window after the most
\* recent of these calls.  (SpecSave)
C7_WriteOneWindowAfterLatestCall ==
    /\ (timeout = {}) <=> (sinceCall = {})
    /\ \A left \in timeout : \A since \in sinceCall : left + since = DebounceWait

\* the timer is due one window after the latest call, and the oldest update not
\* yet written is older than one window
C7_Witness ==
    /\ timeout = {0}
    /\ sinceCall = {DebounceWait}
    /\ \E age \in dirtyAge : age > DebounceWait

\* C7 as stated: for every update, a write that includes it is issued at most one
\* window after the call, whatever calls arrive in the meantime.  (SpecSave;
\* violated)
C7_UpdateWrittenWithinWindow ==
    \A age \in dirtyAge : age <= DebounceWait

\* ---------------------------------------------------------------------- C8
\* C8: emit(event, data) calls the handlers registered for the event, in the order
\* of their subscription, each with the data; a handler that throws does not keep
\* the handlers after it from being called; emit itself does not throw.  (SpecEmit)
C8_EmitCallsAllInOrder ==
    lastOp.op = "emit"
        => /\ ~lastOp.raised
           /\ Len(lastOp.emits) = 1
           /\ lastOp.emits[1].called =
                 (IF lastOp.arg \in DOMAIN eventListeners
                  THEN eventListeners[lastOp.arg] ELSE << >>)

\* an emit called a throwing handler and, after it, another handler
C8_Witness ==
    /\ lastOp.op = "emit"
    /\ \E i, j \in 1..Len(lastOp.emits[1].called) :
          /\ i < j
          /\ lastOp.emits[1].called[i] \in Throwing
          /\ lastOp.emits[1].called[j] \notin Throwing

\* ---------------------------------------------------------------------- C9
\* C9: at every point at which the page could be closed, the ids of the persisted
\* files collection are the ids of the persisted fileData collection.  (Spec;
\* violated)
C9_StoresHoldSameIds ==
    DOMAIN dbFiles = DOMAIN dbFileData

\* --------------------------------------------------------------------- C10
\* the File that addFile was given for a file of the list
InputOf(id) == CHOOSE r \in RawFiles : r.name = heap[id].fileName

\* C10: for every file imported by a successful addFile and still in the library,
\* getFileData(id) yields the bytes and the declared type of addFile's input,
\* whatever was added or removed in between.  (Spec; violated)
C10_ContentRoundTrip ==
    db = "open"
        => \A id \in Range(files) \cap Ids :
              getFileData(id) =
                [raised |-> FALSE,
                 blob |-> [data |-> InputOf(id).data, type |-> InputOf(id).type]]

\* --------------------------------------------------------------------- C11
\* C11: when removeAllFiles has cleared both stores and emitted, the in-memory list
\* is empty, the current file is none, the files collection is empty, the fileData
\* collection holds nothing but the content of imports still under way, and
\* filesChanged was emitted; the same on a library that was empty already.
\* (Spec; violated)
C11_RemoveAllFilesLeavesEmptyLibrary ==
    (lastOp.op = "removeAllFilesDone" /\ ~lastOp.raised)
        => /\ files = << >>
           /\ currentFile = Null
           /\ dbFiles = EmptyStore
           /\ DOMAIN dbFileData \subseteq {t.id : t \in adds}
           /\ FirstEmit(lastOp.emits, "filesChanged") > 0


\* C12: once no load and no render of the document viewer is in flight, the page
\* drawn on the canvas is the viewer's currentPage of its document: a request made
\* during a render replaced that render (SpecPdf; violated by the code)
C12_LatestRenderRequestWins ==
    (pdfViewer.pdfDocument # Null /\ pdfLoads = {} /\ ~isRendering)
        => pdfViewer.canvas = [doc |-> pdfViewer.pdfDocument, page |-> pdfViewer.currentPage]


\* C13: a load of the document viewer that completes installs its document only
\* if its file is still the viewer's current file: a load overtaken by a newer load
\* of another file, or by the clearing of the viewer, installs nothing (SpecPdf;
\* violated by the code)
C13_StaleLoadInstallsNothing ==
    [][\A l \in pdfLoads :
          (l.pc = "getDocument" /\ l \notin pdfLoads' /\ pdfViewer'.pdfDocument = l.file)
              => pdfViewer.currentFile = l.file]_vars


\* C14: when the current file is no image (another type, or none) and no loadImage
\* call is in flight, no object URL the image viewer created is left un-revoked
\* (SpecImage; violated by the code)
C14_ImageURLsReleased ==
    ((currentFile = Null \/ heap[currentFile].mediaType # "image") /\ imageLoads = {})
        => {u \in objectURLs : u.by = "image"} = {}


\* C15: whenever a document is loaded the viewer's current page lies within
\* 1..totalPages, also right after loadPDF took it from the file's lastViewedPage
\* (SpecPdf; violated by the code)
C15_CurrentPageWithinDocument ==
    pdfViewer.pdfDocument # Null => pdfViewer.currentPage \in 1..pdfViewer.totalPages


\* C16: when a render of page p of the document of the viewer's current file F
\* completes, updateLastViewedPage is called for F with p, the page that was rendered: F's
\* lastViewedPage is then the page on the canvas (SpecPdf; violated by the code)
C16_RenderPersistsRenderedPage ==
    [][(/\ pdfRender.pc = "render" /\ ~pdfRender.cancelled /\ pdfRender' = NoRender
        /\ pdfViewer.currentFile = pdfRender.doc)
          => /\ lastOp'.op = "updateLastViewedPage"
             /\ lastOp'.arg = pdfRender.doc
             /\ heap'[pdfRender.doc].lastViewedPage = pdfViewer'.canvas.page]_vars


\* C17: right after seek(t) on a loaded video, the lastViewedTime of the player's
\* current file is t clamped to [0, duration], the position the element was set to
\* (SpecVideo; violated by the code)
C17_SeekPersistsPosition ==
    [][(/\ lastOp'.op = "seek" /\ lastOp'.result = 1
        /\ videoElement.duration # Null
        /\ videoElement.src.file = videoPlayer.currentFile)
          => /\ heap'[videoPlayer.currentFile].lastViewedTime = videoElement'.currentTime
             /\ heap'[videoPlayer.currentFile].lastViewedTime
                    = Max(0, Min(videoPlayer.duration, lastOp'.arg))]_vars

\* C18: seek(t) with a current file sets the element's position to t clamped to
\* [0, duration], duration being the player's (0 until it is known): 0 for t < 0,
\* duration for t > duration, t in between; rewind, forward, the slider and the
\* keys go through seek (SpecVideo)
C18_SeekClamps ==
    [][(lastOp'.op = "seek" /\ lastOp'.result = 1)
          => LET t == lastOp'.arg
                 d == videoPlayer.duration
             IN  /\ videoElement'.currentTime \in 0..d
                 /\ t < 0 => videoElement'.currentTime = 0
                 /\ t > d => videoElement'.currentTime = d
                 /\ t \in 0..d => videoElement'.currentTime = t]_vars

\* a seek beyond the end of a video of known duration has put the position at the
\* duration
C18_Witness ==
    /\ lastOp.op = "seek" /\ lastOp.result = 1
    /\ videoPlayer.duration > 0
    /\ lastOp.arg > videoPlayer.duration
    /\ videoElement.currentTime = videoPlayer.duration

\* C19: when the engine reports the duration d of the loaded video, the player
\* seeks exactly when it has a current file whose lastViewedTime, capped at d, is
\* greater than 5; the seek goes to that capped time, and without it the position
\* stays 0 (SpecPlay)
C19_ResumeBeyondThreshold ==
    [][(videoElement.duration = Null /\ videoElement'.duration # Null)
          => LET F == videoPlayer.currentFile
                 d == videoElement'.duration
                 saved == IF F = Null THEN 0 ELSE Min(heap[F].lastViewedTime, d)
             IN  /\ lastOp'.op = "onDurationChange"
                 /\ (lastOp'.result = 1) <=> (saved > 5)
                 /\ videoElement'.currentTime = IF saved > 5 THEN saved ELSE 0]_vars

\* the duration was reported for a file whose saved time lay beyond it, and the
\* player has resumed at the duration
C19_Witness ==
    /\ lastOp.op = "onDurationChange" /\ lastOp.result = 1
    /\ lastOp.arg = videoElement.duration
    /\ videoElement.currentTime = videoElement.duration
    /\ videoElement.duration > 5


\* a name whose last extension is one of the pdf, image and video extensions
Recognized(fileName) ==
    ToLower(fileName[Len(fileName)]) \in pdfExtensions \cup imageExtensions \cup videoExtensions

\* C20: no file with an unrecognized extension is handed to addFile by the picker
\* or the drop, and none enters the library (SpecImport; violated by the code)
C20_UnrecognizedNotImported ==
    /\ \A t \in adds : Recognized(t.file.name)
    /\ \A i \in 1..Len(files) : Recognized(heap[files[i]].fileName)


C22_ScaleWithinLimits ==
    /\ ~FLess(imageZoom.scale, minScale)
    /\ ~FLess(maxScale, imageZoom.scale)

\* ------------------------------------------------------------------------- C23
\* the scales a caller of setScale asks for in the state z: one of the buttons
\* and one of the wheel, that of the double click, the current one and two beyond
\* the limits
ScaleRequests(z) ==
    { FMul(z.scale, Frac(5, 4)), FMul(z.scale, Frac(9, 10)), Whole(2), z.scale,
      Frac(1, 100), Whole(100) }

\* (c - pan') / s' = (c - pan) / s on one axis, the scales being positive
SamePointUnder(c, panBefore, scaleBefore, panAfter, scaleAfter) ==
    FMul(FSub(c, panAfter), scaleBefore) = FMul(FSub(c, panBefore), scaleAfter)

Dragged(a, p, q) ==
    [x |-> FAdd(a.x, FSub(q.x, p.x)), y |-> FAdd(a.y, FSub(q.y, p.y))]

\* C28: while an image is shown, a second touch going down turns panning off and
\* starts a pinch, leaving pan and scale alone, and no move of two touches turns
\* panning on or moves the pan origin; when one of two touches lifts, the
\* pinch is over and the viewer is dragging again with its pan origin at the
\* remaining touch, pan and scale still untouched; and the touchmove that follows
\* moves the pan by the displacement of that touch from where it was when the
\* other lifted, and does not change the scale.
C28_PinchToPanReanchors ==
    [][ImageShown =>
        /\ lastOp'.op = "touchstart" /\ lastOp'.arg = 2 =>
              /\ ~imageZoom'.isDragging
              /\ imageZoom'.initialPinchDistance > 0
              /\ imageZoom'.initialScale = imageZoom.scale
              /\ imageZoom'.panOffset = imageZoom.panOffset
              /\ imageZoom'.scale = imageZoom.scale
        /\ lastOp'.op = "touchmove" /\ lastOp'.arg = 2 =>
              /\ imageZoom'.isDragging = imageZoom.isDragging
              /\ imageZoom'.lastPointerPos = imageZoom.lastPointerPos
        /\ lastOp'.op = "touchend" /\ lastOp'.arg = 1 =>
              /\ imageZoom'.isDragging
              /\ imageZoom'.lastPointerPos = imageZoom'.touches[1]
              /\ imageZoom'.initialPinchDistance = 0
              /\ imageZoom'.panOffset = imageZoom.panOffset
              /\ imageZoom'.scale = imageZoom.scale
        /\ lastOp'.op = "touchmove" /\ lastOp'.result = 1 =>
              /\ imageZoom'.panOffset =
                    Dragged(imageZoom.panOffset, imageZoom.touches[1], imageZoom'.touches[1])
              /\ imageZoom'.scale = imageZoom.scale
              /\ imageZoom'.isDragging
    ]_vars

\* an image is shown and centred, one of two touches has lifted, and the touchmove
\* that followed has moved the pan
C28_Witness ==
    /\ ImageShown
    /\ lastOp.op = "touchmove"
    /\ lastOp.result = 1
    /\ imageZoom.imageNaturalSize.width > 0
    /\ imageZoom.isDragging
    /\ imageZoom.lastPointerPos = imageZoom.touches[1]


\* ------------------------------------------------------------------------- C24
\* C24: once opening the store or reading the file list has failed, the manager
\* has an empty list and no current file, and the wait of setupComponents for the
\* manager ends.  After a failed open this.db stays null, so checkInit sets its
\* timer again for ever.
C24_FailedInitUnblocks ==
    (initPc = "failed") ~> (componentsPc = "done" /\ files = << >> /\ currentFile = Null)

\* ------------------------------------------------------------------------- C25
\* C25: when a toggle has settled and no other is awaiting its write, the field
\* in memory, the stored value and the value in the last settingsChanged agree,
\* whether the write succeeded or failed.  After a failed write (or a toggle
\* without an open database) the field is flipped and neither stored nor notified.
C25_SettingsAgreeWhenSettled ==
    \A key \in SettingKeys :
        (lastOp.op = ToggleOf(key) /\ settingWrites = << >>) =>
            /\ key \in DOMAIN dbSettings
            /\ dbSettings[key] = Setting(key)
            /\ settingsNotified # {}
            /\ \A data \in settingsNotified : data[key] = Setting(key)


\* ------------------------------------------------------------------------- C26
\* the file of a load has no content record
NoContent(l) == l.file \notin DOMAIN dbFileData

\* the library is as it was: the list, the pointer, the stored records
LibraryKept ==
    /\ files' = files
    /\ currentFile' = currentFile
    /\ dbFiles' = dbFiles
    /\ dbFileData' = dbFileData

\* C26: when getFileData settles for a load of a file that has no content record,
\* the load ends as a failure: the image viewer and the video player leave their
\* loading state and get no source, the document viewer's load goes no further, and
\* the list of files, the current-file pointer and the stored records stay as they
\* were.
C26_MissingContentIsLoadFailure ==
    [][ /\ \A l \in imageLoads \ imageLoads' :
              NoContent(l) => /\ ~imageViewer'.loading
                              /\ imageViewer'.src = imageViewer.src
                              /\ imageViewer'.currentFile = imageViewer.currentFile
                              /\ LibraryKept
        /\ \A l \in videoLoads \ videoLoads' :
              NoContent(l) => /\ ~videoPlayer'.loading
                              /\ videoElement' = videoElement
                              /\ videoPlayer'.currentFile = videoPlayer.currentFile
                              /\ LibraryKept
        /\ \A l \in pdfLoads \ pdfLoads' :
              (NoContent(l) /\ l.pc = "getFileData") =>
                              /\ pdfLoads' = pdfLoads \ {l}
                              /\ pdfViewer' = pdfViewer
                              /\ LibraryKept
    ]_vars

\* the image without content is selected, its load has failed: the viewer is not
\* loading and shows nothing, and the file is still listed and current
C26_Witness ==
    /\ 2 \notin DOMAIN dbFileData
    /\ currentFile = 2
    /\ Contains(files, 2)
    /\ imageViewer.currentFile = 2
    /\ imageLoads = {}
    /\ ~imageViewer.loading
    /\ imageViewer.src = NoURL

\* ------------------------------------------------------------------------- C27
\* C27: after every dispatch of currentFileChanged with a file f, the viewer of
\* f's media type has f as its current file and the other two have none; after a
\* dispatch with no file all three have none.
C27_OnlyMatchingViewerActive ==
    [][lastOp'.op = "setCurrentFile" =>
        LET f == lastOp'.arg
            type == IF f = Null THEN "" ELSE heap[f].mediaType
        IN  /\ pdfViewer'.currentFile = IF type = "pdf" THEN f ELSE Null
            /\ imageViewer'.currentFile = IF type = "image" THEN f ELSE Null
            /\ videoPlayer'.currentFile = IF type = "video" THEN f ELSE Null
    ]_vars

\* the video was selected while the image viewer had the image: the player has the
\* video and the image viewer nothing
C27_Witness ==
    /\ lastOp.op = "setCurrentFile"
    /\ lastOp.arg = 3
    /\ lastOp.before = 2
    /\ videoPlayer.currentFile = 3
    /\ imageViewer.currentFile = Null
    /\ pdfViewer.currentFile = Null


\* ------------------------------------------------------------------------- C29
\* the three update calls and the field each sets
UpdateCalls == {"updateLastViewedPage", "updateLastViewedTime", "updateVideoDuration"}

UpdatedField(name) ==
    CASE name = "updateLastViewedPage" -> "lastViewedPage"
      [] name = "updateLastViewedTime" -> "lastViewedTime"
      [] name = "updateVideoDuration" -> "videoDuration"

\* C29: an update call for a listed file sets that one field of that file (the
\* list entry, which is the current file too when it has that id), changes no other
\* field and no other file, emits nothing and leaves a debounced save pending one
\* window later; for a file not in the list it changes nothing and schedules
\* nothing.  Before setupAutoSave has run (and for ever after a failed init) the
\* call sets the field and then throws, and no save is scheduled.
C29_UpdateSetsOneFieldAndSchedules ==
    [][lastOp'.op \in UpdateCalls =>
        LET f == lastOp'.arg
        IN  /\ lastOp'.emits = << >>
            /\ files' = files
            /\ currentFile' = currentFile
            /\ IF Contains(files, f)
               THEN /\ \E v \in (1..MaxPage) \cup Times :
                          heap' = [heap EXCEPT ![f][UpdatedField(lastOp'.op)] = v]
                    /\ ~lastOp'.raised
                    /\ timeout' = {DebounceWait}
               ELSE /\ heap' = heap
                    /\ timeout' = timeout
    ]_vars

\* ------------------------------------------------------------------------- C30
\* the events of the notifications a call emitted, in order
EventsOf(emits) == [i \in 1..Len(emits) |-> emits[i].event]

\* C30: removeFile(f) keeps the remaining files in their order; when f is not the
\* current file the pointer stays and only filesChanged is emitted; when f is the
\* current file the first of the remaining files, or none, becomes current and
\* currentFileChanged is emitted before filesChanged.  When the storage transaction
\* cannot be opened the call ends after the filter: nothing is emitted and the
\* removed file stays current.
C30_RemoveFileNotifiesSelectionChange ==
    [][lastOp'.op = "removeFile" =>
        LET f == lastOp'.arg
            newFiles == FilterOut(files, f)
        IN  /\ files' = newFiles
            /\ IF currentFile # Null /\ currentFile = f
               THEN /\ currentFile' = IF Len(newFiles) > 0 THEN newFiles[1] ELSE Null
                    /\ EventsOf(lastOp'.emits) = << "currentFileChanged", "filesChanged" >>
               ELSE /\ currentFile' = currentFile
                    /\ EventsOf(lastOp'.emits) = << "filesChanged" >>
    ]_vars


\* ------------------------------------------------------------------------- C31
\* C31: once no addFile and no removeAllFiles is in flight, the list the shell's
\* subscriber to filesChanged last drew is the in-memory list: every change of the
\* list was followed by a filesChanged carrying it, also when the storage step of
\* the operation failed.  removeAllFiles empties the list first and emits only
\* after both clears succeeded, and removeFile emits only after its transaction
\* opened, so after a failed storage step the thumbnails keep the old list.
C31_SubscribersSeeTheList ==
    (adds = {} /\ removeAllPc = "idle" /\ Subscribed("filesChanged", "app"))
        => fileGrid = files


\* ------------------------------------------------------------------------- C32
\* a timeupdate step: the element's position moved on its own source
TimeUpdated ==
    /\ lastOp'.op = ""
    /\ videoElement'.src = videoElement.src
    /\ videoElement.duration # Null /\ videoElement'.duration = videoElement.duration
    /\ videoElement' # videoElement

\* a tick of the interval timer that reported: the last saved position moved
\* outside any call of the player's interface
TickReported ==
    /\ lastOp'.op = ""
    /\ videoElement' = videoElement
    /\ videoPlayer'.lastSavedPosition # videoPlayer.lastSavedPosition

C33_CurrentFileIsListed ==
    currentFile = Null \/ Contains(files, currentFile)


\* ------------------------------------------------------------------------- C34
\* C34: every file of the in-memory list has a content record in the fileData
\* collection, under every interleaving of an addFile in flight with removeFile
\* and removeAllFiles: no file enters the list after the content stored for it was
\* cleared.  addFile pushes its entry after its awaits without looking at the
\* store again, and removeAllFiles clears the record of an import in flight.
C34_ListedFilesHaveContent ==
    \A id \in Range(files) : id \in DOMAIN dbFileData


\* ------------------------------------------------------------------------- C35
\* C35: for every pdf file F of the library, 1 <= F.lastViewedPage <= the number
\* of pages of F's document, at all times: the viewer reports to F only a page
\* that was rendered from F's own document, also when the loads of two pdf files
\* overlap and complete in the opposite order of their requests.  renderPage
\* reports this.currentPage to this.currentFile, which loadPDF set to the file
\* requested last while the document installed last may be the other file's.
C35_LastViewedPageWithinOwnDocument ==
    \A f \in Ids :
        heap[f].mediaType = "pdf"
            => heap[f].lastViewedPage >= 1 /\ heap[f].lastViewedPage <= NumPages(f)


\* ------------------------------------------------------------------------- C36
\* the player has the video f as its current file and the element has not yet
\* the metadata of f's media: f is selected and no time update of f has arrived
LoadingVideo(f) ==
    /\ videoPlayer'.currentFile = f
    /\ videoElement.src.file # f \/ videoElement.duration = Null

\* C36: from the selection of a video F until its first time update, F's
\* lastViewedTime keeps the value it had when F was selected: neither the resume
\* seek nor the position left from the video shown before, nor the reset value 0,
\* is written into F.  saveCurrentPosition writes this.currentTime, which until
\* the first time update of F is still the position of the previous video or 0,
\* and it is called by the resume seek, by pause and by the interval timer.
C36_LoadKeepsResumePoint ==
    [][\A f \in Ids :
          LoadingVideo(f) => heap'[f].lastViewedTime = heap[f].lastViewedTime]_vars


\* ------------------------------------------------------------------------- C37
\* pause() or onEnded was handled for the video f, the element holding f's media
\* and the player's position being the element's
StoppedAt(f) ==
    /\ lastOp'.op \in {"pause", "onEnded"}
    /\ videoPlayer.currentFile = f /\ videoElement.src.file = f
    /\ videoElement.duration # Null
    /\ videoPlayer.currentTime = videoElement.currentTime

\* C37: after pause() or the end of playback was handled for the current video F
\* at the player's position t, F.lastViewedTime differs from t by at most 1
\* second, whichever videos were shown and saved before F.  saveCurrentPosition
\* compares t with lastSavedPosition, which is the position last saved for any
\* video (0 at first) and not F's stored position, and skips the save when the
\* two are within a second of each other.
C37_StopSavesPosition ==
    [][\A f \in Ids :
          StoppedAt(f)
              => Abs(heap'[f].lastViewedTime - videoPlayer'.currentTime) <= SaveThreshold
      ]_vars


\* ------------------------------------------------------------------------- C38
\* the library in use with every storage request succeeding: imports, removals,
\* page updates, the debounce timer, saveFiles, time
NextDurable ==
    \/ InitDBSuccess /\ UNCHANGED viewerVars
    \/ LoadFilesSuccess /\ UNCHANGED viewerVars
    \/ LoadSettingsDone(TRUE) /\ UNCHANGED viewerVars
    \/ \E file \in RawFiles : AddFileStart(file) /\ UNCHANGED viewerVars
    \/ \E t \in adds : AddFileStoreData(t) /\ UNCHANGED viewerVars
    \/ \E t \in adds : AddFileStored(t) /\ UNCHANGED viewerVars
    \/ \E t \in adds : AddFileCounted(t, MaxPage) /\ UNCHANGED viewerVars
    \/ \E f \in AllIds : RemoveFile(f, TRUE) /\ UNCHANGED viewerVars
    \/ RemoveAllFiles(TRUE) /\ UNCHANGED viewerVars
    \/ RemoveAllFilesDone /\ UNCHANGED viewerVars
    \/ \E f \in AllIds : UpdateLastViewedPage(f, MaxPage) /\ UNCHANGED viewerVars
    \/ DebounceFire /\ UNCHANGED viewerVars
    \/ SaveFilesCleared /\ UNCHANGED viewerVars
    \/ SaveFilesAdded /\ UNCHANGED viewerVars
    \/ \E dt \in Steps : Tick(dt) /\ UNCHANGED viewerVars

SpecDurable == Init /\ [][NextDurable]_vars

\* init() has finished, no addFile, removeAllFiles or saveFiles is in flight and no
\* debounce timer is pending
Settled ==
    /\ initPc = "done" /\ adds = {} /\ removeAllPc = "idle"
    /\ savePc = "idle" /\ timeout = {}

\* the records of the in-memory list, by id
ListRecords == [id \in Range(files) |-> heap[id]]

\* C38: once no operation is pending and every debounce timer has fired, with the
\* storage writes succeeding, the persisted files collection holds exactly the
\* records of the in-memory list, ids and field values.
C38_SettledStoreHoldsTheList ==
    Settled => dbFiles = ListRecords


\* ------------------------------------------------------------------------- C39
\* the call that was just made emitted filesChanged
EmittedFilesChanged ==
    \E i \in 1..Len(lastOp'.emits) : lastOp'.emits[i].event = "filesChanged"

\* C39: in every reachable state with a file in the in-memory list, an update call
\* on that file completes without raising and leaves a save scheduled, and so does
\* a filesChanged notification (that of the initial load excepted, which announces
\* what the store holds); also before init() has finished and after init() failed
\* part-way.  debouncedSave exists, and is subscribed, only once setupAutoSave has
\* run at the end of a successful init.
C39_UpdatesNeverRaiseAndSchedule ==
    [][/\ (lastOp'.op \in UpdateCalls /\ Contains(files, lastOp'.arg))
             => ~lastOp'.raised /\ timeout' # {}
       /\ (EmittedFilesChanged /\ lastOp'.op # "loadFiles" /\ db' = "open")
             => timeout' # {}
    ]_vars


\* ------------------------------------------------------------------------- C40
\* cleanup() ran: MediaManager.dispose closed the open connection
Closed == db = "open" /\ db' = "closed"

\* C40: when cleanup() runs while a debounced write is pending, the in-memory
\* state is written to the files collection before the store is closed, and no
\* write is attempted on the closed store afterwards.  dispose drops the listeners
\* and closes the connection; it neither calls saveFiles nor clears the timer,
\* whose callback then calls saveFiles on the closed connection.
C40_CleanupFlushesPendingWrite ==
    [][/\ (Closed /\ timeout # {}) => dbFiles' = ListRecords' /\ timeout' = {}
       /\ lastOp'.op = "saveFiles" => db = "open"
    ]_vars

====
